---- MODULE Spec2Model ----
(***************************************************************************)
(* A model of the economic map tool (projects/map_viz/src/js/EconomicMap.js *)
(* and the class-based EconomicMap of the site): the data load and merge    *)
(* pipeline, and the session state machine driven by the map's 'load'       *)
(* event, the two selectors, the ZIP tile poll and 'sourcedata' events.     *)
(***************************************************************************)
EXTENDS Integers, Sequences, FiniteSets, TLC

VARIABLES
    files,            \* what each fetched document holds (an input of the run)
    failed,           \* the fetches that fail (an input of the run)
    pc,               \* position of the map 'load' handler
    economicData,     \* EconomicMap.js:190
    redfinData,       \* EconomicMap.js:18 (ZIP lookup table)
    redfinStateData,  \* EconomicMap.js:19
    redfinCountyData, \* EconomicMap.js:20
    redfinCbsaData,   \* EconomicMap.js:21
    settled,          \* the fetches that have finished, well or not
    preMerge,         \* economicData as mergeRedfinIntoEconomicData found it
    currentLevel,     \* EconomicMap.js:14
    currentMetric,    \* EconomicMap.js:191
    originalLevel,    \* EconomicMap.js:1556 (a local of the 'load' handler)
    userLevel,        \* the value the geo-level selector shows
    nSel,             \* how many selector changes the user has made
    lastGeo,          \* the number of the latest geo-level change
    layersAdded,      \* addBoundariesToMap has run (EconomicMap.js:476)
    fillColor,        \* 'fill-color' of each level's fill layer
    lineOn,           \* the levels whose line layer has 'line-opacity' 1
    zipFeatures,      \* map.querySourceFeatures('zips', ...) is not empty
    srcLoaded,        \* map.isSourceLoaded(sourceId)
    zipFeatureStateHandlerSetup, \* EconomicMap.js:663
    polls,            \* the live checkInterval of each geo-level change, with its ticks so far
    timeouts,         \* the geo-level changes whose 5 s timeout is pending
    waiters,          \* the map.once('sourcedata') listeners not yet called
    dispatch,         \* the 'sourcedata' event being delivered and the listeners still to call
    micro,            \* the promise continuations ready to run
    staleCalls,       \* what a poll has called after a later geo-level change
    legend,           \* the map legend: shown or not, and its low and high labels
    colorSettings,    \* EconomicMap.js:26-36
    painted,          \* what the latest applyChoropleth call gave to setPaintProperty
    notification,     \* what the latest applyChoropleth call gave to showNotification
    zipHandlers,      \* how many 'sourcedata' listeners of EconomicMap.js:808 the map holds
    allRegions,       \* EconomicMap.js:16 (the ids of the regions in the region list)
    highlightedRegions, \* EconomicMap.js:17
    featureState,     \* the feature state the map holds for each source and feature id
    mapListeners,     \* the map's listeners of the pointer events, each the closure of a setupHoverTooltip call
    setupCalls,       \* how many times setupHoverTooltip has run
    isTooltipLocked,  \* EconomicMap.js:1661
    tooltip,          \* the #mapTooltip element: its classes and its content
    themePc,          \* position of a theme change: its 'style.load' listener and its 100 ms timer
    themeChanges,     \* how many times the user has changed the theme
    currentData,      \* chart_builder/frontend/app.js:7
    currentChart,     \* chart_builder/frontend/app.js:6
    loadDataBtn,      \* chart_builder/frontend/app.js:18 (its disabled property)
    request,          \* how many fetches of loadData have not settled
    statusMessage,    \* chart_builder/frontend/app.js:19 (its text)
    controls          \* the chart builder's active chart type, its selects and its checkboxes

dataVars == <<files, failed, economicData, redfinData, redfinStateData, redfinCountyData, redfinCbsaData, settled, preMerge>>

sessVars == <<currentLevel, currentMetric, originalLevel, userLevel, nSel, lastGeo, layersAdded, fillColor, lineOn, zipFeatures, srcLoaded, zipFeatureStateHandlerSetup, polls, timeouts, waiters, dispatch, micro, staleCalls, legend, zipHandlers>>

colorVars == <<colorSettings, painted, notification>>

uiVars == <<allRegions, highlightedRegions, featureState, mapListeners, setupCalls, isTooltipLocked, tooltip, themePc, themeChanges>>

chartVars == <<currentData, currentChart, loadDataBtn, request, statusMessage, controls>>

vars == <<dataVars, pc, sessVars, colorVars, uiVars, chartVars>>

---------------------------------------------------------------------------
(* JavaScript values: a tagged tuple, so that a number and a string never *)
(* compare equal and null differs from undefined.                         *)

Undefined == <<"undefined">>

Null == <<"null">>

Num(n) == <<"number", n>>

Str(s) == <<"string", s>>

\* ToBoolean: undefined, null, 0 and "" are falsy.
Truthy(v) ==
    CASE v[1] = "undefined" -> FALSE
      [] v[1] = "null" -> FALSE
      [] v[1] = "number" -> v[2] # 0
      [] v[1] = "string" -> v[2] # ""

\* obj[f]: undefined when the object has no such property.
Get(obj, f) == IF f \in DOMAIN obj THEN obj[f] ELSE Undefined

\* a || b
OrElse(a, b) == IF Truthy(a) THEN a ELSE b

\* obj[f] = v
SetField(obj, f, v) == [g \in DOMAIN obj \cup {f} |-> IF g = f THEN v ELSE obj[g]]

DigitChar(d) ==
    CASE d = 0 -> "0" [] d = 1 -> "1" [] d = 2 -> "2" [] d = 3 -> "3" [] d = 4 -> "4"
      [] d = 5 -> "5" [] d = 6 -> "6" [] d = 7 -> "7" [] d = 8 -> "8" [] d = 9 -> "9"

\* String(n) of a non-negative integer: decimal digits, no padding.
RECURSIVE NumberToString(_)
NumberToString(n) ==
    IF n < 10 THEN DigitChar(n) ELSE NumberToString(n \div 10) \o DigitChar(n % 10)

\* String(v) of a number or a string.
JsString(v) == IF v[1] = "number" THEN NumberToString(v[2]) ELSE v[2]

\* s.padStart(width, '0')
RECURSIVE PadStart(_, _)
PadStart(s, width) == IF Len(s) >= width THEN s ELSE PadStart("0" \o s, width)

\* Object.keys(obj).length === 0
IsEmpty(obj) == DOMAIN obj = {}

EmptyObject == [k \in {} |-> Undefined]

---------------------------------------------------------------------------
(* loadEconomicData: envelope unwrapping and the derived rates.           *)

\* response.data || response
Unwrap(response) == IF "data" \in DOMAIN response THEN response["data"] ELSE response

\* parseFloat(((num / den) * 100).toFixed(1)), held in tenths of a percent:
\* the nearest tenth, a tie going up.
RateOf(num, den) == (2000 * num + den) \div (2 * den)

\* EconomicMap.js:227-232: the rate is computed only when the record has none.
DerivedRate(item, rate, num, den) ==
    IF Get(item, rate) = Undefined /\ Truthy(Get(item, num)) /\ Truthy(Get(item, den))
    THEN SetField(item, rate, Num(RateOf(item[num][2], item[den][2])))
    ELSE item

\* part_000:163-164 (class EconomicMap): the rate is computed whenever both counts are there.
ClassDerivedRate(item, rate, num, den) ==
    IF Truthy(Get(item, num)) /\ Truthy(Get(item, den))
    THEN SetField(item, rate, Num(RateOf(item[num][2], item[den][2])))
    ELSE item

WithRates(item) ==
    DerivedRate(DerivedRate(item, "vacancyRate", "vacantUnits", "totalHousingUnits"),
                "homeownershipRate", "ownerOccupied", "occupiedUnits")

calculateDerivedRates(item) ==
    ClassDerivedRate(ClassDerivedRate(item, "vacancyRate", "vacantUnits", "totalHousingUnits"),
                     "homeownershipRate", "ownerOccupied", "occupiedUnits")

DataLevels == {"states", "counties", "cbsas"}

\* The three datasets as loadEconomicData leaves them.
LoadedEconomicData(econ) ==
    [lv \in DataLevels |-> [k \in DOMAIN Unwrap(econ[lv]) |-> WithRates(Unwrap(econ[lv])[k])]]

ClassLoadedEconomicData(econ) ==
    [lv \in DataLevels |-> [k \in DOMAIN Unwrap(econ[lv]) |-> calculateDerivedRates(Unwrap(econ[lv])[k])]]

---------------------------------------------------------------------------
(* loadGeoData: the overlay lookup tables.                                 *)

\* EconomicMap.js:379-384: every row with a ZIP, keyed by the padded ZIP.
RECURSIVE ZipTable(_, _, _)
ZipTable(table, rows, n) ==
    IF n = 0 THEN table
    ELSE LET prev == ZipTable(table, rows, n - 1)
             zip == Get(rows[n], "ZIP")
         IN  IF zip # Null /\ zip # Undefined
             THEN SetField(prev, PadStart(JsString(zip), 5), rows[n])
             ELSE prev

\* EconomicMap.js:397-402: the greatest PERIOD_END of the first n rows.
\* PERIOD_END is an ISO date; dates are held as their ordinal numbers.
RECURSIVE LatestPeriod(_, _)
LatestPeriod(rows, n) ==
    IF n = 0 THEN Null
    ELSE LET latestPeriod == LatestPeriod(rows, n - 1)
             period == Get(rows[n], "PERIOD_END")
         IN  IF Truthy(period) /\ (~Truthy(latestPeriod) \/ period[2] > latestPeriod[2])
             THEN period
             ELSE latestPeriod

\* A selection that forgets the period.
SelectedOfAnyPeriod(row, latestPeriod, keyField) ==
    /\ Get(row, "PROPERTY_TYPE") = Str("All Residential")
    /\ Truthy(Get(row, keyField))

\* EconomicMap.js:406-408: the rows that enter a lookup table.
Selected(row, latestPeriod, keyField) ==
    /\ Get(row, "PERIOD_END") = latestPeriod
    /\ Get(row, "PROPERTY_TYPE") = Str("All Residential")
    /\ Truthy(Get(row, keyField))

\* EconomicMap.js:405-411: a later row of the same key replaces an earlier one.
RECURSIVE SnapshotTable(_, _, _, _, _)
SnapshotTable(table, rows, keyField, latestPeriod, n) ==
    IF n = 0 THEN table
    ELSE LET prev == SnapshotTable(table, rows, keyField, latestPeriod, n - 1)
         IN  IF Selected(rows[n], latestPeriod, keyField)
             THEN SetField(prev, JsString(rows[n][keyField]), rows[n])
             ELSE prev

Snapshot(table, rows, keyField) ==
    SnapshotTable(table, rows, keyField, LatestPeriod(rows, Len(rows)), Len(rows))

---------------------------------------------------------------------------
(* mergeRedfinIntoEconomicData                                             *)

\* a.f1 || a.f2 || ...
RECURSIVE FirstTruthy(_, _, _)
FirstTruthy(item, fields, n) ==
    IF n = Len(fields) THEN Get(item, fields[n])
    ELSE OrElse(Get(item, fields[n]), FirstTruthy(item, fields, n + 1))

StateKeyFields == <<"stateCode", "STATE_CODE">>

CountyKeyFields == <<"fips", "FIPS", "geoid", "GEOID">>

CbsaKeyFields == <<"cbsaCode", "CBSA_CODE", "geoid", "GEOID">>

\* if (code && table[code])
Matches(item, table, keyFields) ==
    LET code == FirstTruthy(item, keyFields, 1)
    IN  Truthy(code) /\ JsString(code) \in DOMAIN table

RowFor(item, table, keyFields) == table[JsString(FirstTruthy(item, keyFields, 1))]

\* A merge in which a field the record already has is kept.
CopyRowKeepingBaseline(item, row) ==
    [f \in DOMAIN item \cup DOMAIN row |-> IF f \in DOMAIN item THEN item[f] ELSE row[f]]

\* A merge that replaces the record by the row.
CopyRowOnly(item, row) == row

\* A merge that first sets aside, under the field's name with _OLD added, the
\* value it is about to overwrite.
CopyRowSavingOld(item, row) ==
    [f \in DOMAIN item \cup DOMAIN row \cup { g \o "_OLD" : g \in DOMAIN item \cap DOMAIN row } |->
        IF f \in DOMAIN row THEN row[f]
        ELSE IF f \in { g \o "_OLD" : g \in DOMAIN item \cap DOMAIN row }
        THEN item[CHOOSE g \in DOMAIN item \cap DOMAIN row : g \o "_OLD" = f]
        ELSE item[f]]

\* Object.keys(row).forEach(key => item[key] = row[key])
CopyRow(item, row) ==
    [f \in DOMAIN item \cup DOMAIN row |-> IF f \in DOMAIN row THEN row[f] ELSE item[f]]

MergeLevel(dataset, table, keyFields) ==
    IF IsEmpty(table) THEN dataset
    ELSE [k \in DOMAIN dataset |->
            IF Matches(dataset[k], table, keyFields)
            THEN CopyRow(dataset[k], RowFor(dataset[k], table, keyFields))
            ELSE dataset[k]]

Merged(data, stateTable, countyTable, cbsaTable) ==
    [states |-> MergeLevel(data.states, stateTable, StateKeyFields),
     counties |-> MergeLevel(data.counties, countyTable, CountyKeyFields),
     cbsas |-> MergeLevel(data.cbsas, cbsaTable, CbsaKeyFields)]

---------------------------------------------------------------------------
(* The map's 'load' handler, up to the end of the merge.                   *)

EmptyData == [lv \in DataLevels |-> EmptyObject]

\* EconomicMap.js:1546-1548: the handler starts and awaits loadEconomicData.
MapLoad ==
    /\ pc = "idle"
    /\ pc' = "loadEconomicData"
    /\ UNCHANGED <<dataVars, sessVars, colorVars, uiVars, chartVars>>

\* EconomicMap.js:198-254: the three baseline fetches settle; a failure of any
\* is caught and leaves economicData as it was.
EconomicDataSettled ==
    /\ pc = "loadEconomicData"
    /\ economicData' = IF "econ" \in failed THEN economicData ELSE LoadedEconomicData(files.econ)
    /\ settled' = settled \cup {"econ"}
    /\ pc' = "loadGeoData"
    /\ UNCHANGED <<files, failed, redfinData, redfinStateData, redfinCountyData, redfinCbsaData, preMerge>>
    /\ UNCHANGED <<sessVars, colorVars, uiVars, chartVars>>

\* EconomicMap.js:362-370, 484-489: the boundary fetches settle; a failure is
\* caught and returned as a rejected promise, which the 'load' handler awaits.
GeometrySettled ==
    /\ pc = "loadGeoData"
    /\ settled' = settled \cup {"geom"}
    /\ pc' = IF "geom" \in failed THEN "rejected" ELSE "fetchZip"
    /\ UNCHANGED <<files, failed, economicData, redfinData, redfinStateData, redfinCountyData, redfinCbsaData, preMerge>>
    /\ UNCHANGED <<sessVars, colorVars, uiVars, chartVars>>

\* EconomicMap.js:373-388
ZipSettled ==
    /\ pc = "fetchZip"
    /\ redfinData' = IF "zip" \in failed THEN redfinData ELSE ZipTable(redfinData, files.zip, Len(files.zip))
    /\ settled' = settled \cup {"zip"}
    /\ pc' = "fetchState"
    /\ UNCHANGED <<files, failed, economicData, redfinStateData, redfinCountyData, redfinCbsaData, preMerge>>
    /\ UNCHANGED <<sessVars, colorVars, uiVars, chartVars>>

\* EconomicMap.js:391-416
StateSettled ==
    /\ pc = "fetchState"
    /\ redfinStateData' = IF "state" \in failed THEN redfinStateData ELSE Snapshot(redfinStateData, files.state, "STATE_CODE")
    /\ settled' = settled \cup {"state"}
    /\ pc' = "fetchCounty"
    /\ UNCHANGED <<files, failed, economicData, redfinData, redfinCountyData, redfinCbsaData, preMerge>>
    /\ UNCHANGED <<sessVars, colorVars, uiVars, chartVars>>

\* a load whose county overlay is given up when the state overlay has failed
CountySettledUnlessStateFailed ==
    /\ pc = "fetchCounty"
    /\ redfinCountyData' = IF {"state", "county"} \cap failed # {} THEN redfinCountyData ELSE Snapshot(redfinCountyData, files.county, "COUNTY_FIPS")
    /\ settled' = settled \cup {"county"}
    /\ pc' = "fetchCbsa"
    /\ UNCHANGED <<files, failed, economicData, redfinData, redfinStateData, redfinCbsaData, preMerge>>
    /\ UNCHANGED <<sessVars, colorVars, uiVars, chartVars>>

\* EconomicMap.js:419-444
CountySettled ==
    /\ pc = "fetchCounty"
    /\ redfinCountyData' = IF "county" \in failed THEN redfinCountyData ELSE Snapshot(redfinCountyData, files.county, "COUNTY_FIPS")
    /\ settled' = settled \cup {"county"}
    /\ pc' = "fetchCbsa"
    /\ UNCHANGED <<files, failed, economicData, redfinData, redfinStateData, redfinCbsaData, preMerge>>
    /\ UNCHANGED <<sessVars, colorVars, uiVars, chartVars>>

\* EconomicMap.js:447-472
CbsaSettled ==
    /\ pc = "fetchCbsa"
    /\ redfinCbsaData' = IF "cbsa" \in failed THEN redfinCbsaData ELSE Snapshot(redfinCbsaData, files.cbsa, "TABLE_ID")
    /\ settled' = settled \cup {"cbsa"}
    /\ pc' = "merge"
    /\ UNCHANGED <<files, failed, economicData, redfinData, redfinStateData, redfinCountyData, preMerge>>
    /\ UNCHANGED <<sessVars, colorVars, uiVars, chartVars>>

\* the merge, started while the CBSA overlay is still being fetched
MergeBeforeCbsaSettles ==
    /\ pc = "fetchCbsa"
    /\ preMerge' = economicData
    /\ economicData' = Merged(economicData, redfinStateData, redfinCountyData, redfinCbsaData)
    /\ pc' = "merged"
    /\ UNCHANGED <<files, failed, redfinData, redfinStateData, redfinCountyData, redfinCbsaData, settled>>
    /\ UNCHANGED <<sessVars, colorVars, uiVars, chartVars>>

\* EconomicMap.js:474, 256-315: the merge has no await inside; it runs as one step.
mergeRedfinIntoEconomicData ==
    /\ pc = "merge"
    /\ preMerge' = economicData
    /\ economicData' = Merged(economicData, redfinStateData, redfinCountyData, redfinCbsaData)
    /\ pc' = "merged"
    /\ UNCHANGED <<files, failed, redfinData, redfinStateData, redfinCountyData, redfinCbsaData, settled>>
    /\ UNCHANGED <<sessVars, colorVars, uiVars, chartVars>>

\* part_000:90-92, 136-158: the class's 'load' handler; its loadGeoData fetches
\* boundaries only, its loadEconomicData ends with calculateDerivedRates.
ClassLoadEconomicData ==
    /\ pc = "idle"
    /\ economicData' = IF "econ" \in failed THEN economicData ELSE ClassLoadedEconomicData(files.econ)
    /\ settled' = settled \cup {"geom", "econ"}
    /\ pc' = "classLoaded"
    /\ UNCHANGED <<files, failed, redfinData, redfinStateData, redfinCountyData, redfinCbsaData, preMerge>>
    /\ UNCHANGED <<sessVars, colorVars, uiVars, chartVars>>

---------------------------------------------------------------------------
(* The session: the map, the two selectors, timers and 'sourcedata' events. *)

\* EconomicMap.js:1406: the four geography levels of the selector
Levels == {"states", "counties", "cbsas", "zips"}

\* EconomicMap.js:1501, 1061: the metrics painted from the overlay
redfinMetrics == {"MEDIAN_SALE_PRICE"}

\* the options of the metric selector: no metric, a baseline one, an overlay one
Metrics == {"none", "totalPopulation"} \cup redfinMetrics

\* a version that colours by the raw field
rawMetric(metric) == metric

\* EconomicMap.js:1077-1078, 1180-1181: overlay metrics are painted from their rank
visualizationMetric(metric) == IF metric \in redfinMetrics THEN metric \o "_RANK" ELSE metric

\* EconomicMap.js:1212-1214, 1267-1269: the values of a metric a level has
allValues(level, field) == { k \in DOMAIN economicData[level] : Get(economicData[level][k], field) \notin {Null, Undefined} }

\* EconomicMap.js:505-660 (paint of addLayer): every fill starts in the dimmed colour
InitialFill == [lv \in Levels |-> <<"dimmed", "none">>]

\* EconomicMap.js:1045-1304: the 'fill-color' each fill layer has after
\* applyChoropleth ran for (level, metric)
applyChoropleth(fill, level, metric) ==
    IF metric = "none" THEN (IF layersAdded THEN [fill EXCEPT ![level] = <<"flat", "none">>] ELSE fill)
    ELSE IF level = "zips" /\ metric \in redfinMetrics THEN [fill EXCEPT !["zips"] = <<"interpolate", metric>>]
    ELSE IF level = "zips" THEN fill
    ELSE IF allValues(level, visualizationMetric(metric)) = {} THEN fill
    ELSE [fill EXCEPT ![level] = <<"match", metric>>]

\* EconomicMap.js:94-131: the label of a number below 1000 (toLocaleString
\* puts no separator in it); a sale price gets a dollar sign in front
formatMetricValue(metric, value) ==
    IF value \in {Null, Undefined} THEN "N/A"
    ELSE IF metric = "MEDIAN_SALE_PRICE" THEN "$" \o NumberToString(value[2])
    ELSE NumberToString(value[2])

\* EconomicMap.js:1320-1340: the raw values of metric the legend reads at level
legendValues(level, metric) ==
    IF level = "zips" /\ metric \in redfinMetrics
    THEN { Get(redfinData[k], metric) : k \in DOMAIN redfinData } \ {Null, Undefined}
    ELSE IF level \in DataLevels
    THEN { Get(economicData[level][k], metric) : k \in DOMAIN economicData[level] } \ {Null, Undefined}
    ELSE {}

\* Math.min(...values) and Math.max(...values) of a non-empty set of numbers
MathMin(values) == CHOOSE v \in values : \A w \in values : v[2] <= w[2]

MathMax(values) == CHOOSE v \in values : \A w \in values : v[2] >= w[2]

\* EconomicMap.js:191, 1356-1358: no metric is chosen at first, and the legend
\* of no metric is the hidden one; its labels are still to be written
InitialLegend == [display |-> FALSE, low |-> "", high |-> ""]

\* EconomicMap.js:1306-1359: the legend after updateLegend ran for (level, metric)
updateLegend(lg, level, metric) ==
    IF metric # "none"
    THEN LET values == legendValues(level, metric)
         IN  IF values # {}
             THEN [display |-> TRUE, low |-> formatMetricValue(metric, MathMin(values)),
                   high |-> formatMetricValue(metric, MathMax(values))]
             ELSE [lg EXCEPT !.display = TRUE]
    ELSE [lg EXCEPT !.display = FALSE]

\* EconomicMap.js:1045-1304: the legend after applyChoropleth ran for (level,
\* metric); it reaches updateLegend at 1157, 1265 and 1303 only
legendAfterChoropleth(lg, level, metric) ==
    IF metric = "none" THEN lg
    ELSE IF level = "zips" /\ metric \in redfinMetrics THEN updateLegend(lg, level, metric)
    ELSE IF level = "zips" THEN lg
    ELSE IF allValues(level, visualizationMetric(metric)) = {} THEN lg
    ELSE updateLegend(lg, level, metric)

\* EconomicMap.js:676-696: the source applyRedfinDataToZips works on at a level;
\* the branch for 'cbsa' never matches a value of the selector
ActiveSource(level) ==
    CASE level = "zips" /\ ~IsEmpty(redfinData) -> "zips"
      [] level = "states" /\ ~IsEmpty(redfinStateData) -> "states"
      [] level = "counties" /\ ~IsEmpty(redfinCountyData) -> "counties"
      [] OTHER -> "none"

\* EconomicMap.js:665-823: a call of applyRedfinDataToZips at a level whose
\* promise is awaited by continuation then: it resolves at once (no data, or
\* the source is loaded) or it leaves a once('sourcedata') listener.
applyRedfinDataToZips(level, then, queue, listeners) ==
    LET sourceId == ActiveSource(level) IN
    IF sourceId = "none"
    THEN /\ micro' = Append(queue, then)
         /\ waiters' = listeners
         /\ UNCHANGED <<zipFeatureStateHandlerSetup, zipHandlers>>
    ELSE IF ~srcLoaded[sourceId]
    THEN /\ micro' = queue
         /\ waiters' = Append(listeners, [sourceId |-> sourceId, then |-> then])
         /\ UNCHANGED <<zipFeatureStateHandlerSetup, zipHandlers>>
    ELSE /\ micro' = Append(queue, then)
         /\ waiters' = listeners
         /\ zipFeatureStateHandlerSetup' = (zipFeatureStateHandlerSetup \/ level = "zips")
         /\ zipHandlers' = IF level = "zips" /\ ~zipFeatureStateHandlerSetup THEN zipHandlers + 1 ELSE zipHandlers

\* the event loop runs one task to its end, continuations included, before the next
Idle == micro = <<>> /\ dispatch = <<>>

\* EconomicMap.js:480-481: the loading overlay covers the page until loadGeoData hides it
OverlayHidden == pc \in {"await1", "await2", "timers", "ready"}

\* a continuation of the given kind is the next to run; continuations run
\* when the listeners of the event being delivered have all returned
Ready(kind) == dispatch = <<>> /\ micro # <<>> /\ Head(micro)[1] = kind

---------------------------------------------------------------------------
(* Colours and the choropleth.  A colour is the sequence of the characters *)
(* of its text; a number of a _RANK field is held in tenths (Num(5) is the *)
(* rank 0.5), every other number as it is.                                 *)

HexDigits == <<"0", "1", "2", "3", "4", "5", "6", "7", "8", "9", "a", "b", "c", "d", "e", "f">>

UpperHexDigits == <<"0", "1", "2", "3", "4", "5", "6", "7", "8", "9", "A", "B", "C", "D", "E", "F">>

\* the value parseInt(.., 16) gives to one hexadecimal digit, of either case
HexValue(ch) == (CHOOSE i \in 1..16 : HexDigits[i] = ch \/ UpperHexDigits[i] = ch) - 1

\* parseInt(digits, 16) of a text of hexadecimal digits
RECURSIVE parseInt16(_)
parseInt16(digits) ==
    IF digits = <<>> THEN 0
    ELSE 16 * parseInt16(SubSeq(digits, 1, Len(digits) - 1)) + HexValue(digits[Len(digits)])

\* n.toString(16): lower-case digits, a minus sign before those of a negative number
RECURSIVE toString16(_)
toString16(n) ==
    IF n < 0 THEN <<"-">> \o toString16(-n)
    ELSE IF n < 16 THEN <<HexDigits[n + 1]>>
    ELSE toString16(n \div 16) \o <<HexDigits[(n % 16) + 1]>>

\* Math.round(num / den) for den > 0: the nearest integer, a tie going up
MathRound(num, den) == (2 * num + den) \div (2 * den)

\* EconomicMap.js:26-36
DefaultColorSettings ==
    [selected  |-> <<"#", "6", "2", "7", "B", "C", "1">>,
     dimmed    |-> <<"#", "C", "C", "C", "C", "C", "C">>,
     choroLow  |-> <<"#", "e", "f", "f", "3", "f", "f">>,
     choroHigh |-> <<"#", "0", "8", "5", "1", "9", "c">>]

\* 'rgba(0, 0, 0, 0)'
Transparent == <<"rgba(0, 0, 0, 0)">>

\* EconomicMap.js:133-146 (part_000:264-269 is the same arithmetic): the colour
\* at factor num / den between color1 and color2.  slice(1) drops the first
\* character of the text of (1 << 24) + (r << 16) + (g << 8) + b.
interpolateColor(color1, color2, num, den) ==
    LET c1 == parseInt16(Tail(color1))
        c2 == parseInt16(Tail(color2))
        r1 == (c1 \div 65536) % 256
        g1 == (c1 \div 256) % 256
        b1 == c1 % 256
        r2 == (c2 \div 65536) % 256
        g2 == (c2 \div 256) % 256
        b2 == c2 % 256
        r == MathRound(r1 * den + num * (r2 - r1), den)
        g == MathRound(g1 * den + num * (g2 - g1), den)
        b == MathRound(b1 * den + num * (b2 - b1), den)
    IN  <<"#">> \o Tail(toString16(16777216 + r * 65536 + g * 256 + b))

\* the key of the i-th record of a dataset: two digits, so that Object.keys
\* lists the keys in the order they were written
RegionKey(i) == PadStart(NumberToString(i), 2)

\* the values of a version without the filter, whose sort takes null for zero
FieldValuesWithNulls(dataset, field) ==
    [i \in 1..Cardinality(DOMAIN dataset) |->
        IF Get(dataset[RegionKey(i)], field) \in {Null, Undefined} THEN Num(0) ELSE Get(dataset[RegionKey(i)], field)]

\* Object.values(dataset).map(d => d[field])
\*     .filter(v => v !== null && v !== undefined)
FieldValues(dataset, field) ==
    SelectSeq([i \in 1..Cardinality(DOMAIN dataset) |-> Get(dataset[RegionKey(i)], field)],
              LAMBDA v : v \notin {Null, Undefined})

\* [...allValues].sort((a, b) => a - b)
RECURSIVE InsertSorted(_, _)
InsertSorted(sorted, v) ==
    IF sorted = <<>> THEN <<v>>
    ELSE IF v[2] < Head(sorted)[2] THEN <<v>> \o sorted
    ELSE <<Head(sorted)>> \o InsertSorted(Tail(sorted), v)

RECURSIVE sortedValues(_)
sortedValues(values) ==
    IF values = <<>> THEN <<>> ELSE InsertSorted(sortedValues(Tail(values)), Head(values))

\* a version that places a value between zero and the greatest value
getColorForValueFromZero(value, values) ==
    IF value \in {Null, Undefined} THEN colorSettings.dimmed
    ELSE IF values = <<>> THEN colorSettings.dimmed
    ELSE LET max == sortedValues(values)[Len(values)][2]
         IN  IF max = 0 THEN interpolateColor(colorSettings.choroLow, colorSettings.choroHigh, 1, 2)
             ELSE interpolateColor(colorSettings.choroLow, colorSettings.choroHigh, value[2], max)

\* EconomicMap.js:1034-1043
getColorForValue(value, values) ==
    IF value \in {Null, Undefined} THEN colorSettings.dimmed
    ELSE IF values = <<>> THEN colorSettings.dimmed
    ELSE LET min == sortedValues(values)[1][2]
             max == sortedValues(values)[Len(values)][2]
         IN  IF max = min THEN interpolateColor(colorSettings.choroLow, colorSettings.choroHigh, 1, 2)
             ELSE interpolateColor(colorSettings.choroLow, colorSettings.choroHigh, value[2] - min, max - min)

\* part_000:253-262
ClassGetColorForValue(value, values) ==
    IF value \in {Null, Undefined} \/ values = <<>> THEN colorSettings.dimmed
    ELSE LET min == sortedValues(values)[1][2]
             max == sortedValues(values)[Len(values)][2]
         IN  IF max = min THEN colorSettings.dimmed
             ELSE interpolateColor(colorSettings.choroLow, colorSettings.choroHigh, value[2] - min, max - min)

NothingPainted == [kind |-> "nothing"]

\* EconomicMap.js:1053, part_000:222: the fill of no metric
FlatFill(level) ==
    [kind |-> "case", layer |-> level, selected |-> colorSettings.selected, otherwise |-> colorSettings.dimmed]

\* EconomicMap.js:1076-1132: the fill of the ZIP layer for a market metric,
\* read from the feature state; the stops are in tenths
ZipFill(metric) ==
    [kind |-> "interpolate", layer |-> "zips", input |-> visualizationMetric(metric),
     stops |-> <<<<0, colorSettings.choroLow>>, <<10, colorSettings.choroHigh>>>>,
     otherwise |-> colorSettings.dimmed]

\* EconomicMap.js:1232-1263: the fill of a data level for a market metric:
\* a colour for every region that has a rank, by its rank between minRank 0.0
\* and maxRank 1.0 (0 and 10 tenths)
RankFill(level, metric) ==
    LET dataset == economicData[level]
        ranked == { k \in DOMAIN dataset : Get(dataset[k], visualizationMetric(metric)) \notin {Null, Undefined} }
    IN  [kind |-> "match", layer |-> level,
         colors |-> [k \in ranked |->
                        interpolateColor(colorSettings.choroLow, colorSettings.choroHigh,
                                         Get(dataset[k], visualizationMetric(metric))[2] - 0, 10 - 0)],
         otherwise |-> Transparent]

\* EconomicMap.js:1281-1301: the fill of a data level for any other metric
ValueFill(level, metric) ==
    LET dataset == economicData[level]
    IN  [kind |-> "match", layer |-> level,
         colors |-> [k \in DOMAIN dataset |-> getColorForValue(Get(dataset[k], metric), FieldValues(dataset, metric))],
         otherwise |-> Transparent]

\* part_000:225-246
ClassValueFill(level, metric) ==
    LET dataset == economicData[level]
    IN  [kind |-> "match", layer |-> level,
         colors |-> [k \in DOMAIN dataset |-> ClassGetColorForValue(Get(dataset[k], metric), FieldValues(dataset, metric))],
         otherwise |-> colorSettings.dimmed]

\* EconomicMap.js:1219-1229, 1271-1276: the text of the notification
Unavailable(level, metric) == metric \o " data is not available for " \o level

\* EconomicMap.js:1163
NoIndicatorsForZips == "Economic indicators are not available for ZIP codes."

\* EconomicMap.js:1152
ZoomInForZips == "Zoom in to see ZIP code data"

---------------------------------------------------------------------------
(* The region list, the highlights, the tooltip and the chart builder.     *)

\* the ids of the features of the boundary files of a session
\* (EconomicMap.js:362-368) and of its ZIP tiles (634-637)
BoundaryFeatures == [states |-> {"06", "48"}, counties |-> {"06037"}, cbsas |-> {"31080"}, zips |-> {"90210"}]

\* EconomicMap.js:925-964: the ids populateRegionList puts in allRegions; at
\* the ZIP level they are the keys of redfinData
populateRegionList(level) ==
    IF level = "zips" THEN DOMAIN redfinData ELSE BoundaryFeatures[level]

\* the sources that hold the features of the four levels (EconomicMap.js:476)
FeatureSources == {"states", "counties", "cbsas", "zips"}

NoFeatureState == [source \in FeatureSources |-> EmptyObject]

\* ['boolean', ['feature-state', key], false] of a feature (EconomicMap.js:1052-1053)
FeatureFlag(fs, source, id, key) == id \in DOMAIN fs[source] /\ fs[source][id][key]

\* EconomicMap.js:998-1023: updateHighlights at a level, with the region list
\* and the set of highlighted ids as they are; every level but 'states' and
\* 'counties' is written to the source 'cbsas'
updateHighlights(fs, level, regions, highlighted) ==
    LET sourceId == IF level = "states" THEN "states"
                    ELSE IF level = "counties" THEN "counties" ELSE "cbsas"
        old == fs[sourceId]
        written == regions \cup (IF highlighted # {} THEN highlighted ELSE {})
        StateOf(id) ==
            IF highlighted # {} /\ id \in highlighted
            THEN [highlighted |-> TRUE, dimmed |-> FALSE]
            ELSE IF id \in regions
            THEN [highlighted |-> FALSE, dimmed |-> highlighted # {}]
            ELSE old[id]
    IN  [fs EXCEPT ![sourceId] = [id \in DOMAIN old \cup written |-> StateOf(id)]]

\* EconomicMap.js:1049-1058, 1101-1105, 1183-1184: what applyChoropleth leaves
\* of highlightedRegions: it clears the set when no metric is selected and
\* on its path for the three data levels, and returns before that at the
\* ZIP level
highlightedAfterChoropleth(highlighted, level, metric) ==
    IF metric = "none" \/ level # "zips" THEN {} ELSE highlighted

PointerEvents == {"mousemove", "mouseleave", "click"}

NoListeners == [type \in PointerEvents |-> {}]

\* map.off(type, listener): the listener leaves the map if the map holds it
mapOff(ls, type, listener) == [ls EXCEPT ![type] = @ \ {listener}]

\* map.on(type, listener)
mapOn(ls, type, listener) == [ls EXCEPT ![type] = @ \cup {listener}]

\* EconomicMap.js:1676-1682, 1846-1848: setupHoverTooltip takes its own three
\* handlers off the map and puts them on it. onMouseMove, onMouseLeave and
\* onMapClick are function declarations of its body (1805, 1823, 1829), so
\* every call has three new function objects, named here by the number of
\* the call.
setupHoverTooltip(ls, call) ==
    LET off == mapOff(mapOff(mapOff(ls, "mousemove", call), "mouseleave", call), "click", call)
    IN  mapOn(mapOn(mapOn(off, "mousemove", call), "mouseleave", call), "click", call)

\* the tooltip before any pointer event
NoContent == [level |-> "", id |-> "", metric |-> ""]

\* EconomicMap.js:1684-1771: the content updateTooltipContent gives the tooltip
\* for a feature: its name and its figures at the current level, the
\* selected metric set off
updateTooltipContent(id) == [level |-> currentLevel, id |-> id, metric |-> currentMetric]

\* the interface before the map's 'load' event
UiInit ==
    /\ allRegions = {}
    /\ highlightedRegions = {}
    /\ featureState = NoFeatureState
    /\ mapListeners = NoListeners
    /\ setupCalls = 0
    /\ isTooltipLocked = FALSE
    /\ tooltip = [show |-> FALSE, locked |-> FALSE, content |-> NoContent]
    /\ themePc = "idle"
    /\ themeChanges = 0

\* a JavaScript array
Arr(elements) == <<"array", elements>>

\* chart_builder/frontend/app.js:6-7, 27-32: the chart builder when init has
\* run: no data, no chart, the Load button enabled
ChartInit ==
    /\ currentData = Arr(<<>>)
    /\ currentChart = Null
    /\ loadDataBtn = [disabled |-> FALSE]
    /\ request = 0
    /\ statusMessage = "Ready to visualize data"
    /\ controls = [type |-> "bar", metric |-> "", groupBy |-> "", showGrid |-> TRUE]

NoPolls == [id \in {} |-> 0]

NoEvent == <<>>

\* the session before the map's 'load' event
SessInit ==
    /\ currentLevel = "states"
    /\ currentMetric = "none"
    /\ originalLevel = "states"
    /\ userLevel = "states"
    /\ nSel = 0
    /\ lastGeo = 0
    /\ layersAdded = FALSE
    /\ fillColor = InitialFill
    /\ lineOn = {}
    /\ zipFeatures = FALSE
    /\ srcLoaded = [s \in {"states", "counties", "zips"} |-> FALSE]
    /\ zipFeatureStateHandlerSetup = FALSE
    /\ polls = NoPolls
    /\ timeouts = {}
    /\ waiters = <<>>
    /\ dispatch = NoEvent
    /\ micro = <<>>
    /\ staleCalls = {}
    /\ legend = InitialLegend
    /\ colorSettings = DefaultColorSettings
    /\ painted = NothingPainted
    /\ notification = ""
    /\ zipHandlers = 0
    /\ UiInit
    /\ ChartInit

---------------------------------------------------------------------------
(* The documents of a run of the data pipeline, drawn from bounded sets.   *)

MaxRows == 2

\* A record without its undefined fields.
Strip(r) == [f \in {g \in DOMAIN r : r[g] # Undefined} |-> r[f]]

RateRecords ==
    { Strip([vacancyRate |-> a, vacantUnits |-> b, totalHousingUnits |-> c,
             homeownershipRate |-> d, ownerOccupied |-> e, occupiedUnits |-> g]) :
        a \in {Undefined, Null, Num(50)}, b \in {Undefined, Num(0), Num(1)},
        c \in {Undefined, Num(8)}, d \in {Undefined, Num(500)},
        e \in {Undefined, Num(2)}, g \in {Undefined, Num(3)} }

OverlayKeyField(lv) ==
    CASE lv = "states" -> "STATE_CODE" [] lv = "counties" -> "COUNTY_FIPS" [] lv = "cbsas" -> "TABLE_ID"

KeyFieldsOf(lv) ==
    CASE lv = "states" -> StateKeyFields [] lv = "counties" -> CountyKeyFields [] lv = "cbsas" -> CbsaKeyFields

\* The forms in which one region's code arrives.
CodeForms(lv) ==
    CASE lv = "states" -> {Str("CA"), Str("TX")}
      [] lv = "counties" -> {Num(6037), Str("6037"), Str("06037")}
      [] lv = "cbsas" -> {Str("31080"), Num(31080)}

\* The rows of an overlay document: those of one region in several periods
\* and property types, and the latest 'All Residential' row under each form
\* of the code under test.
OverlayRows(lv) ==
    { (OverlayKeyField(lv) :> k) @@ [PERIOD_END |-> p, PROPERTY_TYPE |-> t, MEDIAN_SALE_PRICE |-> Num(800)] :
        k \in {IF lv = "states" THEN Str("CA") ELSE Str("99")}, p \in {Null, Num(1), Num(2)},
        t \in {Str("All Residential"), Str("Condo/Co-op")} }
    \cup
    { (OverlayKeyField(lv) :> k) @@ [PERIOD_END |-> Num(2), PROPERTY_TYPE |-> Str("All Residential"), MEDIAN_SALE_PRICE |-> Num(800)] :
        k \in CodeForms(lv) }

SeqsUpTo(S, n) == UNION { [1..m -> S] : m \in 0..n }

\* The region under test, whose code comes in each form; OtherRecord is a
\* second region, of code "99".
JoinRecords(lv) ==
    { Strip((kf :> k) @@ [totalPopulation |-> Num(39), MEDIAN_SALE_PRICE |-> m]) :
        kf \in {KeyFieldsOf(lv)[1], KeyFieldsOf(lv)[Len(KeyFieldsOf(lv))]},
        k \in CodeForms(lv), m \in {Undefined, Num(100)} }

OtherRecord(lv) == (KeyFieldsOf(lv)[1] :> Str("99")) @@ [totalPopulation |-> Num(30)]

Response(lv, dataset, enveloped) ==
    [l \in DataLevels |->
        IF l # lv THEN EmptyObject
        ELSE IF enveloped THEN [data |-> dataset] ELSE dataset]

NoRows == [state |-> <<>>, county |-> <<>>, cbsa |-> <<>>, zip |-> <<>>]

OverlayOf(lv) == CASE lv = "states" -> "state" [] lv = "counties" -> "county" [] lv = "cbsas" -> "cbsa"

\* Documents that exercise the derived rates: one record, no overlay rows.
RateFiles ==
    { [econ |-> Response(lv, ("06" :> r), env)] @@ NoRows :
        lv \in DataLevels, r \in RateRecords, env \in BOOLEAN }

\* Documents that exercise snapshot selection and the join.
JoinFilesOf(lv) ==
    { [econ |-> Response(lv, ("06" :> r) @@ ("99" :> OtherRecord(lv)), FALSE)]
        @@ (OverlayOf(lv) :> rows) @@ NoRows :
        r \in JoinRecords(lv), rows \in SeqsUpTo(OverlayRows(lv), MaxRows) }

InitData ==
    /\ \/ files \in RateFiles
       \/ \E lv \in DataLevels : files \in JoinFilesOf(lv)
    /\ failed = {}
    /\ pc = "idle"
    /\ economicData = EmptyData
    /\ redfinData = EmptyObject
    /\ redfinStateData = EmptyObject
    /\ redfinCountyData = EmptyObject
    /\ redfinCbsaData = EmptyObject
    /\ settled = {}
    /\ preMerge = EmptyData
    /\ SessInit

NextData ==
    \/ MapLoad
    \/ EconomicDataSettled
    \/ GeometrySettled
    \/ ZipSettled
    \/ StateSettled
    \/ CountySettled
    \/ CbsaSettled
    \/ mergeRedfinIntoEconomicData
    \/ ClassLoadEconomicData

SpecData == InitData /\ [][NextData]_vars

---------------------------------------------------------------------------
(* The session state machine.                                              *)

\* how many selector changes the user makes in a run
MaxSelections == 2

\* how many times a checkInterval finds no ZIP features before its 5 s
\* timeout is due (EconomicMap.js:1474, 1482: every 100 ms, for 5000 ms)
MaxTicks == 1

\* the six load attempts of a session start
Sources == {"econ", "geom", "zip", "state", "county", "cbsa"}

OverlayRow(keyField, key) ==
    (keyField :> key) @@ [PERIOD_END |-> Num(2), PROPERTY_TYPE |-> Str("All Residential"),
                          MEDIAN_SALE_PRICE |-> Num(800), MEDIAN_SALE_PRICE_RANK |-> Num(1)]

\* The documents of a session: two states, a county and a metro area with
\* their population; overlay rows for a state, a county and a ZIP, none for
\* metro areas.
SessionFiles ==
    [econ |-> [states |-> [data |-> ("06" :> [stateCode |-> Str("CA"), totalPopulation |-> Num(39)])
                                 @@ ("48" :> [stateCode |-> Str("TX"), totalPopulation |-> Num(30)])],
               counties |-> ("06037" :> [fips |-> Str("06037"), totalPopulation |-> Num(10)]),
               cbsas |-> ("31080" :> [cbsaCode |-> Str("31080"), totalPopulation |-> Num(13)])],
     state |-> <<OverlayRow("STATE_CODE", Str("CA"))>>,
     county |-> <<OverlayRow("COUNTY_FIPS", Str("06037"))>>,
     cbsa |-> <<>>,
     zip |-> <<[OverlayRow("ZIP", Num(90210)) EXCEPT !.MEDIAN_SALE_PRICE = Num(500)]>>]

\* every combination of failed and successful load attempts
Init ==
    /\ files = SessionFiles
    /\ failed \in SUBSET Sources
    /\ pc = "idle"
    /\ economicData = EmptyData
    /\ redfinData = EmptyObject
    /\ redfinStateData = EmptyObject
    /\ redfinCountyData = EmptyObject
    /\ redfinCbsaData = EmptyObject
    /\ settled = {}
    /\ preMerge = EmptyData
    /\ SessInit

dataAndPc == <<dataVars, pc>>

\* EconomicMap.js:476-483, 1549-1553: loadGeoData adds the layers, hides the
\* overlay and returns; the 'load' handler goes on to its first
\* applyRedfinDataToZips and awaits it.
FinishLoadGeoData ==
    /\ pc = "merged"
    /\ layersAdded' = TRUE
    /\ pc' = "await1"
    /\ applyRedfinDataToZips(currentLevel, <<"load1">>, micro, waiters)
    /\ UNCHANGED <<dataVars, colorVars, uiVars, chartVars, currentLevel, currentMetric, originalLevel, userLevel, nSel, lastGeo, fillColor, lineOn, zipFeatures, srcLoaded, polls, timeouts, dispatch, staleCalls, legend>>

\* EconomicMap.js:1555-1558: the first await returns; with ZIP rows loaded the
\* handler saves currentLevel, sets it to 'zips' and awaits a second call.
PreloadZips ==
    /\ Ready("load1")
    /\ IF ~IsEmpty(redfinData)
       THEN /\ originalLevel' = currentLevel
            /\ currentLevel' = "zips"
            /\ pc' = "await2"
            /\ applyRedfinDataToZips("zips", <<"load2">>, Tail(micro), waiters)
       ELSE /\ pc' = "timers"
            /\ micro' = Tail(micro)
            /\ UNCHANGED <<originalLevel, currentLevel, waiters, zipFeatureStateHandlerSetup, zipHandlers>>
    /\ UNCHANGED <<dataVars, colorVars, uiVars, chartVars, currentMetric, userLevel, nSel, lastGeo, layersAdded, fillColor, lineOn, zipFeatures, srcLoaded, polls, timeouts, dispatch, staleCalls, legend>>

\* EconomicMap.js:1559-1575: the second await returns; currentLevel is set back
\* to the saved value and the two timers are started.
RestoreLevel ==
    /\ Ready("load2")
    /\ currentLevel' = originalLevel
    /\ pc' = "timers"
    /\ micro' = Tail(micro)
    /\ UNCHANGED <<dataVars, colorVars, uiVars, chartVars, currentMetric, originalLevel, userLevel, nSel, lastGeo, layersAdded, fillColor, lineOn, zipFeatures, srcLoaded, zipFeatureStateHandlerSetup, zipHandlers, polls, timeouts, waiters, dispatch, staleCalls, legend>>

\* EconomicMap.js:1570-1575, 1519-1544: the 500 ms timer shows the states lines.
initializeDefaultGeography ==
    /\ Idle
    /\ pc = "timers"
    /\ pc' = "ready"
    /\ lineOn' = IF layersAdded THEN lineOn \cup {"states"} ELSE lineOn
    /\ allRegions' = populateRegionList(currentLevel)
    /\ setupCalls' = setupCalls + 1
    /\ mapListeners' = setupHoverTooltip(mapListeners, setupCalls + 1)
    /\ UNCHANGED <<highlightedRegions, featureState, isTooltipLocked, tooltip, themePc, themeChanges>>
    /\ UNCHANGED <<dataVars, colorVars, chartVars, currentLevel, currentMetric, originalLevel, userLevel, nSel, lastGeo, layersAdded, fillColor, zipFeatures, srcLoaded, zipFeatureStateHandlerSetup, zipHandlers, polls, timeouts, waiters, dispatch, micro, staleCalls, legend>>

\* EconomicMap.js:1401-1490: the 'change' listener of the geo-level selector
\* runs with the selector at level; id numbers the run.
geoLevelChange(level, id) ==
    /\ currentLevel' = level
    /\ lastGeo' = id
    /\ highlightedRegions' = {}
    /\ lineOn' = IF layersAdded THEN {level} ELSE lineOn
    /\ allRegions' = populateRegionList(level)
    /\ setupCalls' = setupCalls + 1
    /\ mapListeners' = setupHoverTooltip(mapListeners, setupCalls + 1)
    /\ IF level = "zips" /\ ~IsEmpty(redfinData)
       THEN IF zipFeatures
            THEN /\ applyRedfinDataToZips(level, <<"geo", id>>, micro, waiters)
                 /\ UNCHANGED <<polls, timeouts, fillColor, legend>>
            ELSE /\ polls' = (id :> 0) @@ polls
                 /\ timeouts' = timeouts \cup {id}
                 /\ UNCHANGED <<micro, waiters, zipFeatureStateHandlerSetup, zipHandlers, fillColor, legend>>
       ELSE /\ IF currentMetric # "none"
               THEN /\ fillColor' = applyChoropleth(fillColor, level, currentMetric)
                    /\ legend' = legendAfterChoropleth(legend, level, currentMetric)
               ELSE UNCHANGED <<fillColor, legend>>
            /\ UNCHANGED <<polls, timeouts, micro, waiters, zipFeatureStateHandlerSetup, zipHandlers>>

\* The user changes the geo-level selector to level.
GeoSelect(level) ==
    /\ Idle /\ OverlayHidden
    /\ nSel < MaxSelections
    /\ level # userLevel
    /\ userLevel' = level
    /\ nSel' = nSel + 1
    /\ geoLevelChange(level, nSel + 1)
    /\ UNCHANGED <<featureState, isTooltipLocked, tooltip, themePc, themeChanges>>
    /\ UNCHANGED <<dataAndPc, colorVars, chartVars, currentMetric, originalLevel, layersAdded, zipFeatures, srcLoaded, dispatch, staleCalls>>

\* EconomicMap.js:1494-1517: the metric selector changes to metric.
MetricSelect(metric) ==
    /\ Idle /\ OverlayHidden
    /\ nSel < MaxSelections
    /\ metric # currentMetric
    /\ currentMetric' = metric
    /\ nSel' = nSel + 1
    /\ IF currentLevel = "zips" /\ metric \in redfinMetrics /\ ~IsEmpty(redfinData)
       THEN /\ applyRedfinDataToZips(currentLevel, <<"metric", nSel + 1>>, micro, waiters)
            /\ UNCHANGED <<fillColor, legend, highlightedRegions, mapListeners, setupCalls>>
       ELSE /\ fillColor' = applyChoropleth(fillColor, currentLevel, metric)
            /\ highlightedRegions' = highlightedAfterChoropleth(highlightedRegions, currentLevel, metric)
            /\ legend' = updateLegend(legendAfterChoropleth(legend, currentLevel, metric), currentLevel, metric)
            /\ setupCalls' = setupCalls + 1
            /\ mapListeners' = setupHoverTooltip(mapListeners, setupCalls + 1)
            /\ UNCHANGED <<micro, waiters, zipFeatureStateHandlerSetup, zipHandlers>>
    /\ UNCHANGED <<allRegions, featureState, isTooltipLocked, tooltip, themePc, themeChanges>>
    /\ UNCHANGED <<dataAndPc, colorVars, chartVars, currentLevel, originalLevel, userLevel, lastGeo, layersAdded, lineOn, zipFeatures, srcLoaded, polls, timeouts, dispatch, staleCalls>>

\* EconomicMap.js:1506-1510: applyRedfinDataToZips has resolved for a metric change.
MetricThen ==
    /\ Ready("metric")
    /\ micro' = Tail(micro)
    /\ fillColor' = applyChoropleth(fillColor, currentLevel, currentMetric)
    /\ highlightedRegions' = highlightedAfterChoropleth(highlightedRegions, currentLevel, currentMetric)
    /\ legend' = updateLegend(legendAfterChoropleth(legend, currentLevel, currentMetric), currentLevel, currentMetric)
    /\ setupCalls' = setupCalls + 1
    /\ mapListeners' = setupHoverTooltip(mapListeners, setupCalls + 1)
    /\ UNCHANGED <<allRegions, featureState, isTooltipLocked, tooltip, themePc, themeChanges>>
    /\ UNCHANGED <<dataAndPc, colorVars, chartVars, currentLevel, currentMetric, originalLevel, userLevel, nSel, lastGeo, layersAdded, lineOn, zipFeatures, srcLoaded, zipFeatureStateHandlerSetup, zipHandlers, polls, timeouts, waiters, dispatch, staleCalls>>

\* EconomicMap.js:1451-1456, 1467-1472: applyRedfinDataToZips has resolved for
\* the geo-level change number id (called at once, or from its poll).
GeoThen(kind) ==
    /\ Ready(kind)
    /\ micro' = Tail(micro)
    /\ IF currentMetric # "none"
       THEN /\ fillColor' = applyChoropleth(fillColor, currentLevel, currentMetric)
            /\ legend' = legendAfterChoropleth(legend, currentLevel, currentMetric)
            /\ highlightedRegions' = highlightedAfterChoropleth(highlightedRegions, currentLevel, currentMetric)
            /\ staleCalls' = IF kind = "poll" /\ Head(micro)[2] # lastGeo THEN staleCalls \cup {"applyChoropleth"} ELSE staleCalls
       ELSE UNCHANGED <<fillColor, staleCalls, legend, highlightedRegions>>
    /\ UNCHANGED <<allRegions, featureState, mapListeners, setupCalls, isTooltipLocked, tooltip, themePc, themeChanges>>
    /\ UNCHANGED <<dataAndPc, colorVars, chartVars, currentLevel, currentMetric, originalLevel, userLevel, nSel, lastGeo, layersAdded, lineOn, zipFeatures, srcLoaded, zipFeatureStateHandlerSetup, zipHandlers, polls, timeouts, waiters, dispatch>>

\* EconomicMap.js:1460-1474: a tick of the checkInterval of geo-level change id.
PollTick(id) ==
    /\ Idle
    /\ id \in DOMAIN polls /\ polls[id] < MaxTicks
    /\ IF zipFeatures
       THEN /\ polls' = [i \in DOMAIN polls \ {id} |-> polls[i]]
            /\ applyRedfinDataToZips(currentLevel, <<"poll", id>>, micro, waiters)
            /\ staleCalls' = IF id # lastGeo THEN staleCalls \cup {"applyRedfinDataToZips"} ELSE staleCalls
       ELSE /\ polls' = [polls EXCEPT ![id] = @ + 1]
            /\ UNCHANGED <<micro, waiters, zipFeatureStateHandlerSetup, zipHandlers, staleCalls>>
    /\ UNCHANGED <<dataAndPc, colorVars, uiVars, chartVars, currentLevel, currentMetric, originalLevel, userLevel, nSel, lastGeo, layersAdded, fillColor, lineOn, zipFeatures, srcLoaded, timeouts, dispatch, legend>>

\* EconomicMap.js:1477-1482: the 5 s timeout of geo-level change id clears its
\* checkInterval; it is due after the interval's ticks.
PollTimeout(id) ==
    /\ Idle
    /\ id \in timeouts
    /\ id \in DOMAIN polls => polls[id] = MaxTicks
    /\ timeouts' = timeouts \ {id}
    /\ polls' = [i \in DOMAIN polls \ {id} |-> polls[i]]
    /\ UNCHANGED <<dataAndPc, colorVars, uiVars, chartVars, currentLevel, currentMetric, originalLevel, userLevel, nSel, lastGeo, layersAdded, fillColor, lineOn, zipFeatures, srcLoaded, zipFeatureStateHandlerSetup, zipHandlers, waiters, dispatch, micro, staleCalls, legend>>

\* The map fires 'sourcedata' for a source: every once('sourcedata') listener
\* is taken off the map and will be called with this event, which a listener
\* matches when e.sourceId is its source and e.isSourceLoaded holds.
SourceData(sourceId) ==
    /\ Idle /\ layersAdded
    /\ waiters # <<>>
    /\ dispatch' = [i \in 1..Len(waiters) |->
                      [then |-> waiters[i].then,
                       matches |-> sourceId = waiters[i].sourceId /\ srcLoaded[sourceId]]]
    /\ waiters' = <<>>
    /\ UNCHANGED <<dataAndPc, colorVars, uiVars, chartVars, currentLevel, currentMetric, originalLevel, userLevel, nSel, lastGeo, layersAdded, fillColor, lineOn, zipFeatures, srcLoaded, zipFeatureStateHandlerSetup, zipHandlers, polls, timeouts, micro, staleCalls, legend>>

\* EconomicMap.js:705-709: one once('sourcedata') listener is called; it calls
\* applyRedfinDataToZips again when the event is its source's and the source
\* is loaded, and does nothing otherwise.
OnceSourceData ==
    /\ dispatch # <<>>
    /\ dispatch' = Tail(dispatch)
    /\ LET listener == Head(dispatch)
       IN IF listener.matches
          THEN /\ applyRedfinDataToZips(currentLevel, listener.then, micro, waiters)
               /\ staleCalls' = IF listener.then[1] = "poll" /\ listener.then[2] # lastGeo
                                THEN staleCalls \cup {"applyRedfinDataToZips"} ELSE staleCalls
          ELSE UNCHANGED <<micro, waiters, zipFeatureStateHandlerSetup, zipHandlers, staleCalls>>
    /\ UNCHANGED <<dataAndPc, colorVars, uiVars, chartVars, currentLevel, currentMetric, originalLevel, userLevel, nSel, lastGeo, layersAdded, fillColor, lineOn, zipFeatures, srcLoaded, polls, timeouts, legend>>

\* The map: ZIP tiles come into view or leave it.
TilesChange ==
    /\ Idle /\ layersAdded
    /\ zipFeatures' = ~zipFeatures
    /\ UNCHANGED <<dataAndPc, colorVars, uiVars, chartVars, currentLevel, currentMetric, originalLevel, userLevel, nSel, lastGeo, layersAdded, fillColor, lineOn, srcLoaded, zipFeatureStateHandlerSetup, zipHandlers, polls, timeouts, waiters, dispatch, micro, staleCalls, legend>>

\* The map: a source finishes loading; the vector source of the ZIPs starts
\* loading again when new tiles are requested.
SourceLoadChange(sourceId) ==
    /\ Idle /\ layersAdded
    /\ sourceId = "zips" \/ ~srcLoaded[sourceId]
    /\ srcLoaded' = [srcLoaded EXCEPT ![sourceId] = ~@]
    /\ UNCHANGED <<dataAndPc, colorVars, uiVars, chartVars, currentLevel, currentMetric, originalLevel, userLevel, nSel, lastGeo, layersAdded, fillColor, lineOn, zipFeatures, zipFeatureStateHandlerSetup, zipHandlers, polls, timeouts, waiters, dispatch, micro, staleCalls, legend>>

Startup ==
    \/ MapLoad
    \/ EconomicDataSettled
    \/ GeometrySettled
    \/ ZipSettled
    \/ StateSettled
    \/ CountySettled
    \/ CbsaSettled
    \/ mergeRedfinIntoEconomicData
    \/ FinishLoadGeoData
    \/ PreloadZips
    \/ RestoreLevel
    \/ initializeDefaultGeography

Next ==
    \/ Startup
    \/ \E level \in Levels : GeoSelect(level)
    \/ \E metric \in Metrics : MetricSelect(metric)
    \/ MetricThen
    \/ \E kind \in {"geo", "poll"} : GeoThen(kind)
    \/ \E id \in 1..MaxSelections : PollTick(id)
    \/ \E id \in 1..MaxSelections : PollTimeout(id)
    \/ \E sourceId \in Levels : SourceData(sourceId)
    \/ OnceSourceData
    \/ TilesChange
    \/ \E sourceId \in DOMAIN srcLoaded : SourceLoadChange(sourceId)

Spec == Init /\ [][Next]_vars

\* A session whose fetches all succeed.
InitLive == Init /\ failed = {}

\* What the browser runs sooner or later: the steps of the 'load' handler,
\* promise continuations, listeners of a fired event, and due timers.
\* The map goes on firing 'sourcedata' for its ZIP source while listeners
\* wait. Nothing obliges the user to select or the tiles to change.
Fairness ==
    /\ WF_vars(Startup)
    /\ WF_vars(SourceData("zips"))
    /\ WF_vars(MetricThen)
    /\ WF_vars(OnceSourceData)
    /\ \A kind \in {"geo", "poll"} : WF_vars(GeoThen(kind))
    /\ \A id \in 1..MaxSelections : WF_vars(PollTick(id)) /\ WF_vars(PollTimeout(id))

SpecLive == InitLive /\ [][Next]_vars /\ Fairness

---------------------------------------------------------------------------
(* Properties of the session.                                              *)

\* C1: a poll started by an earlier geo-level change never calls
\* applyRedfinDataToZips or applyChoropleth once a later geo-level change
\* has been made.
C1_SupersededPollIsDiscarded == staleCalls = {}

\* C2: whenever the event loop is idle, currentLevel is the level the user
\* selected last ('states' before any selection): nothing that runs across an
\* await or a timer changes it.
C2_CurrentLevelIsTheSelection == Idle => currentLevel = userLevel

\* C4: whatever fetches fail, the 'load' handler never ends in a rejected
\* promise nobody handles.
C4_StartupNeverRejects == pc # "rejected"

\* the ZIP layer is painted by the current overlay metric
ZipChoroplethApplied == fillColor["zips"] = <<"interpolate", currentMetric>>

\* the user's selection is the ZIP level with an overlay metric
ZipSelection == userLevel = "zips" /\ currentMetric \in redfinMetrics

\* C3: once the user has switched to the ZIP level with an overlay metric
\* selected, if at any later time the map reports ZIP features present (and
\* its ZIP source loaded) and goes on reporting so, the ZIP choropleth is
\* eventually applied, unless the user selects again.
C3_ZipChoroplethEventually ==
    \A n \in 1..MaxSelections :
        (ZipSelection /\ nSel = n /\ zipFeatures /\ srcLoaded["zips"])
            ~> (ZipChoroplethApplied \/ nSel # n \/ ~zipFeatures \/ ~srcLoaded["zips"])

AfterMerge == {"merged", "await1", "await2", "timers", "ready"}

\* C5: the merge starts only when the baseline load and the four overlay load
\* attempts (and the boundary fetch before them) have all finished, whether
\* well or not, and from its start on economicData is the merge of what it
\* found with the tables the loads left: no load step wrote in between.
C5_MergeAfterEveryLoad ==
    pc \in {"merge"} \cup AfterMerge =>
        /\ settled = Sources
        /\ pc \in AfterMerge =>
            /\ preMerge = (IF "econ" \in failed THEN EmptyData ELSE LoadedEconomicData(files.econ))
            /\ economicData = Merged(preMerge, redfinStateData, redfinCountyData, redfinCbsaData)
            /\ redfinStateData = (IF "state" \in failed THEN EmptyObject ELSE Snapshot(EmptyObject, files.state, "STATE_CODE"))
            /\ redfinCountyData = (IF "county" \in failed THEN EmptyObject ELSE Snapshot(EmptyObject, files.county, "COUNTY_FIPS"))
            /\ redfinCbsaData = (IF "cbsa" \in failed THEN EmptyObject ELSE Snapshot(EmptyObject, files.cbsa, "TABLE_ID"))

\* the merge has run in a session where one overlay load failed and another
\* brought rows that the merge joined
C5_Witness ==
    /\ pc = "merged"
    /\ "state" \in failed /\ "county" \notin failed /\ "econ" \notin failed
    /\ economicData # preMerge

\* C6: once a selector handler has run to its end at the states, counties or
\* metro-area level, the fill colour of the current level is the one of the
\* current metric: the match on the metric's values when it has some, and no
\* colouring by any metric otherwise; a colouring by another metric is gone.
C6_FillIsOfCurrentMetric ==
    (Idle /\ nSel > 0 /\ currentLevel = userLevel /\ currentLevel \in DataLevels) =>
        IF currentMetric # "none" /\ allValues(currentLevel, visualizationMetric(currentMetric)) # {}
        THEN fillColor[currentLevel] = <<"match", currentMetric>>
        ELSE fillColor[currentLevel][2] = "none"

---------------------------------------------------------------------------
(* Properties of the data pipeline.                                        *)

Rates == {"vacancyRate", "homeownershipRate"}

NumeratorOf(rate) == IF rate = "vacancyRate" THEN "vacantUnits" ELSE "ownerOccupied"

DenominatorOf(rate) == IF rate = "vacancyRate" THEN "totalHousingUnits" ELSE "occupiedUnits"

\* The baseline records of a level, as fetched.
BaselineOf(lv) == IF "econ" \in failed THEN EmptyObject ELSE Unwrap(files.econ[lv])

TableOf(lv) ==
    CASE lv = "states" -> redfinStateData [] lv = "counties" -> redfinCountyData [] lv = "cbsas" -> redfinCbsaData

RowsOf(lv) == files[OverlayOf(lv)]

\* C7: derived-rate computation never overwrites a baseline value: a rate the
\* baseline supplies is, after loading, the baseline's; a rate is computed
\* (num / den * 100 to one decimal) only when the baseline has none and the
\* counts are there.
C7_DerivedNeverOverwrites ==
    pc \in {"loadGeoData", "classLoaded"} =>
        \A lv \in DataLevels : \A k \in DOMAIN BaselineOf(lv) : \A rate \in Rates :
            LET b == BaselineOf(lv)[k]
                item == economicData[lv][k]
            IN  IF rate \in DOMAIN b
                THEN Get(item, rate) = b[rate]
                ELSE rate \in DOMAIN item =>
                        /\ Truthy(Get(b, DenominatorOf(rate)))
                        /\ item[rate] = Num(RateOf(b[NumeratorOf(rate)][2], b[DenominatorOf(rate)][2]))

\* C8: when an overlay row matches a region record, after the merge every
\* field of the row is in the record with the row's value, also where the
\* baseline had set that field to another value.
C8_OverlayWins ==
    pc = "merged" =>
        \A lv \in DataLevels : \A k \in DOMAIN preMerge[lv] :
            LET code == FirstTruthy(preMerge[lv][k], KeyFieldsOf(lv), 1)
            IN  (Truthy(code) /\ JsString(code) \in DOMAIN TableOf(lv)) =>
                    \A f \in DOMAIN TableOf(lv)[JsString(code)] :
                        Get(economicData[lv][k], f) = TableOf(lv)[JsString(code)][f]

\* A matched record whose baseline MEDIAN_SALE_PRICE differed from the row's.
C8_Witness ==
    /\ pc = "merged"
    /\ \E lv \in DataLevels : \E k \in DOMAIN preMerge[lv] :
          /\ Get(preMerge[lv][k], "MEDIAN_SALE_PRICE") = Num(100)
          /\ Get(economicData[lv][k], "MEDIAN_SALE_PRICE") = Num(800)
          /\ "PERIOD_END" \in DOMAIN economicData[lv][k]

\* C9: snapshot selection keeps at most one row per join key, an
\* 'All Residential' row of the key's most recent period; no row of another
\* period or property type enters a lookup table or a region record.
C9_SnapshotIsLatest ==
    pc \in {"merge", "merged"} =>
        \A lv \in DataLevels :
            /\ \A key \in DOMAIN TableOf(lv) :
                  LET kept == TableOf(lv)[key]
                  IN  /\ \E i \in 1..Len(RowsOf(lv)) : RowsOf(lv)[i] = kept
                      /\ kept["PROPERTY_TYPE"] = Str("All Residential")
                      /\ JsString(kept[OverlayKeyField(lv)]) = key
                      /\ \A i \in 1..Len(RowsOf(lv)) :
                            LET row == RowsOf(lv)[i]
                            IN  (JsString(row[OverlayKeyField(lv)]) = key /\ Truthy(row["PERIOD_END"])) =>
                                    /\ Truthy(kept["PERIOD_END"])
                                    /\ row["PERIOD_END"][2] <= kept["PERIOD_END"][2]
            /\ pc = "merged" =>
                  \A k \in DOMAIN economicData[lv] :
                      \/ economicData[lv][k] = preMerge[lv][k]
                      \/ \E key \in DOMAIN TableOf(lv) :
                            economicData[lv][k] = CopyRow(preMerge[lv][k], TableOf(lv)[key])

\* A key with a kept row and a discarded row, the kept row in a record.
C9_Witness ==
    /\ pc = "merged"
    /\ \E lv \in DataLevels : \E key \in DOMAIN TableOf(lv) :
          /\ \E i \in 1..Len(RowsOf(lv)) :
                /\ JsString(RowsOf(lv)[i][OverlayKeyField(lv)]) = key
                /\ RowsOf(lv)[i] # TableOf(lv)[key]
          /\ \E k \in DOMAIN economicData[lv] : economicData[lv][k] # preMerge[lv][k]

\* The canonical form of a code: a string zero-padded to the level's width
\* (as the tooltip builds it, EconomicMap.js:1694-1695).
CanonicalKey(v, width) == PadStart(JsString(v), width)

\* C10: an overlay row and a county record that denote the same FIPS code are
\* joined whatever the form of either key (number, unpadded or zero-padded string).
C10_SameFipsJoined ==
    pc = "merged" =>
        \A k \in DOMAIN preMerge.counties : \A key \in DOMAIN redfinCountyData :
            LET code == FirstTruthy(preMerge.counties[k], CountyKeyFields, 1)
            IN  (Truthy(code) /\ CanonicalKey(code, 5) = PadStart(key, 5)) =>
                    \E key2 \in DOMAIN redfinCountyData :
                        /\ PadStart(key2, 5) = CanonicalKey(code, 5)
                        /\ \A f \in DOMAIN redfinCountyData[key2] :
                              Get(economicData.counties[k], f) = redfinCountyData[key2][f]

---------------------------------------------------------------------------
(* The choropleth of one level: applyChoropleth of the map tool and of the *)
(* class, applied to the records, the metric and the colours of the state. *)

MaxRegions == 3

\* the records of a level: census records with or without a population, and
\* market records with a sale price and its rank, the rank in tenths
ColorRecords ==
    { [name |-> Str("region")] }
    \cup { [name |-> Str("region"), totalPopulation |-> p] : p \in {Null, Num(0), Num(10), Num(40)} }
    \cup { [name |-> Str("region"), MEDIAN_SALE_PRICE |-> Num(800), MEDIAN_SALE_PRICE_RANK |-> r] :
             r \in {Null, Num(0), Num(5), Num(10), Num(12)} }

\* the datasets of n records
ColorDatasets(n) ==
    { [k \in {RegionKey(i) : i \in 1..n} |-> d[CHOOSE i \in 1..n : RegionKey(i) = k]] : d \in [1..n -> ColorRecords] }

\* the colours of the settings panel: the defaults, a gradient from black to
\* white, or one written in capitals
ColorSettingsChoices ==
    { DefaultColorSettings,
      [DefaultColorSettings EXCEPT !.choroLow = <<"#", "0", "0", "0", "0", "0", "0">>,
                                   !.choroHigh = <<"#", "f", "f", "f", "f", "f", "f">>,
                                   !.dimmed = <<"#", "d", "d", "d", "d", "d", "d">>],
      [DefaultColorSettings EXCEPT !.choroLow = <<"#", "F", "F", "A", "A", "0", "0">>,
                                   !.choroHigh = <<"#", "0", "0", "0", "0", "F", "F">>] }

\* a level with its records, a metric and the colours; the layers are on the map
InitColor ==
    /\ files = SessionFiles
    /\ failed = {}
    /\ pc = "chosen"
    /\ currentLevel \in Levels
    /\ currentMetric \in Metrics
    /\ colorSettings \in ColorSettingsChoices
    /\ \E n \in 0..MaxRegions : \E dataset \in ColorDatasets(n) :
          economicData = [lv \in DataLevels |-> IF lv = currentLevel THEN dataset ELSE EmptyObject]
    /\ redfinData = EmptyObject
    /\ redfinStateData = EmptyObject
    /\ redfinCountyData = EmptyObject
    /\ redfinCbsaData = EmptyObject
    /\ settled = Sources
    /\ preMerge = EmptyData
    /\ originalLevel = currentLevel
    /\ userLevel = currentLevel
    /\ nSel = 0
    /\ lastGeo = 0
    /\ layersAdded = TRUE
    /\ fillColor = InitialFill
    /\ lineOn = {currentLevel}
    /\ zipFeatures = FALSE
    /\ srcLoaded = [s \in {"states", "counties", "zips"} |-> FALSE]
    /\ zipFeatureStateHandlerSetup = FALSE
    /\ polls = NoPolls
    /\ timeouts = {}
    /\ waiters = <<>>
    /\ dispatch = NoEvent
    /\ micro = <<>>
    /\ staleCalls = {}
    /\ legend = InitialLegend
    /\ painted = NothingPainted
    /\ notification = ""
    /\ zipHandlers = 0
    /\ UiInit
    /\ ChartInit

\* EconomicMap.js:1045-1304
ApplyChoropleth ==
    /\ pc = "chosen"
    /\ pc' = "applyChoropleth"
    /\ IF currentMetric = "none"
       THEN /\ painted' = FlatFill(currentLevel)
            /\ UNCHANGED <<notification, legend>>
       ELSE IF currentLevel = "zips" /\ currentMetric \in redfinMetrics
       THEN /\ painted' = ZipFill(currentMetric)
            /\ \E zoomedOut \in BOOLEAN : notification' = IF zoomedOut THEN ZoomInForZips ELSE notification
            /\ legend' = updateLegend(legend, currentLevel, currentMetric)
       ELSE IF currentLevel = "zips"
       THEN /\ notification' = NoIndicatorsForZips
            /\ UNCHANGED <<painted, legend>>
       ELSE IF FieldValues(economicData[currentLevel], visualizationMetric(currentMetric)) = <<>>
       THEN /\ notification' = Unavailable(currentLevel, currentMetric)
            /\ UNCHANGED <<painted, legend>>
       ELSE /\ painted' = IF currentMetric \in redfinMetrics
                          THEN RankFill(currentLevel, currentMetric)
                          ELSE ValueFill(currentLevel, currentMetric)
            /\ legend' = updateLegend(legend, currentLevel, currentMetric)
            /\ UNCHANGED <<notification>>
    /\ highlightedRegions' = highlightedAfterChoropleth(highlightedRegions, currentLevel, currentMetric)
    /\ UNCHANGED <<allRegions, featureState, mapListeners, setupCalls, isTooltipLocked, tooltip, themePc, themeChanges>>
    /\ UNCHANGED <<dataVars, currentLevel, currentMetric, originalLevel, userLevel, nSel, lastGeo, layersAdded, fillColor, lineOn, zipFeatures, srcLoaded, zipFeatureStateHandlerSetup, zipHandlers, polls, timeouts, waiters, dispatch, micro, staleCalls, colorSettings, chartVars>>

\* part_000:212-251: applyChoropleth of the class, which has the three data
\* levels (225-228) and loads no market data
ClassApplyChoropleth ==
    /\ pc = "chosen"
    /\ currentLevel \in DataLevels
    /\ currentMetric \notin redfinMetrics
    /\ pc' = "classApplyChoropleth"
    /\ legend' = [legend EXCEPT !.display = (currentMetric # "none")]
    /\ painted' = IF currentMetric = "none" THEN FlatFill(currentLevel) ELSE ClassValueFill(currentLevel, currentMetric)
    /\ UNCHANGED <<dataVars, currentLevel, currentMetric, originalLevel, userLevel, nSel, lastGeo, layersAdded, fillColor, lineOn, zipFeatures, srcLoaded, zipFeatureStateHandlerSetup, zipHandlers, polls, timeouts, waiters, dispatch, micro, staleCalls, colorSettings, uiVars, chartVars, notification>>

NextColor ==
    \/ ApplyChoropleth
    \/ ClassApplyChoropleth

SpecColor == InitColor /\ [][NextColor]_vars

---------------------------------------------------------------------------
(* Properties of the choropleth.                                           *)

\* applyChoropleth, of the map tool or of the class, has run
Applied == pc \in {"applyChoropleth", "classApplyChoropleth"}

\* the records of the current level have no value of the current metric
NoValueAtLevel ==
    /\ currentLevel \in DataLevels
    /\ currentMetric # "none"
    /\ \A k \in DOMAIN economicData[currentLevel] :
          Get(economicData[currentLevel][k], currentMetric) \in {Null, Undefined}

\* C11: when no record of the current level has a value of the selected
\* metric, applyChoropleth gives no colour to the map and notifies the user
\* that the metric is not available for the level.
C11_NoValuesNoColour ==
    (Applied /\ NoValueAtLevel) =>
        /\ painted = NothingPainted
        /\ notification = Unavailable(currentLevel, currentMetric)

\* the regions of the current level that have a value of field
WithValue(field) ==
    { k \in DOMAIN economicData[currentLevel] : Get(economicData[currentLevel][k], field) \notin {Null, Undefined} }

\* a metric coloured between the least and the greatest of its values
RawPath == currentLevel \in DataLevels /\ currentMetric \notin redfinMetrics \cup {"none"}

\* C12: when the values of the metric at the level are all the same one, every
\* region that has a value is painted in the colour halfway between the two
\* ends of the gradient.
C12_EqualValuesMidpoint ==
    (Applied /\ RawPath /\ Cardinality(legendValues(currentLevel, currentMetric)) = 1) =>
        /\ painted # NothingPainted
        /\ \A k \in WithValue(currentMetric) :
              painted.colors[k] = interpolateColor(colorSettings.choroLow, colorSettings.choroHigh, 1, 2)

\* a market metric at a data level, coloured by rank
RankPath == currentLevel \in DataLevels /\ currentMetric \in redfinMetrics

\* '#' and six hexadecimal digits
IsHexColor(color) ==
    /\ Len(color) = 7
    /\ color[1] = "#"
    /\ \A i \in 2..7 : \E j \in 1..16 : color[i] \in {HexDigits[j], UpperHexDigits[j]}

\* C13: every region applyChoropleth of the map tool colours, by its value
\* between the least and the greatest or by its rank, is coloured at a factor
\* from 0 to 1, and its colour is '#' followed by six hexadecimal digits.
C13_FactorWithinUnitInterval ==
    (pc = "applyChoropleth" /\ painted.kind = "match") =>
        /\ RankPath =>
              \A k \in DOMAIN painted.colors :
                  Get(economicData[currentLevel][k], visualizationMetric(currentMetric))[2] \in 0..10
        /\ \A k \in DOMAIN painted.colors : IsHexColor(painted.colors[k])

\* the colour the painted match expression gives to the region of key k
ColourOf(k) == IF k \in DOMAIN painted.colors THEN painted.colors[k] ELSE painted.otherwise

\* C14: a region whose record has no value of the selected metric (null, or
\* the field missing) is painted in the no-data colour, colorSettings.dimmed.
C14_NoValueIsDimmed ==
    (Applied /\ painted.kind = "match") =>
        \A k \in DOMAIN economicData[currentLevel] :
            Get(economicData[currentLevel][k], currentMetric) \in {Null, Undefined} =>
                ColourOf(k) = colorSettings.dimmed

\* C15: for a metric that has no rank, a region is coloured by the place of
\* its value between the least and the greatest of the values the records of
\* the level have; the records without a value count for nothing in them.
C15_BoundsAreMinAndMax ==
    (Applied /\ RawPath /\ painted.kind = "match") =>
        LET values == legendValues(currentLevel, currentMetric)
            min == MathMin(values)[2]
            max == MathMax(values)[2]
        IN  (values # {} /\ max # min) =>
                \A k \in WithValue(currentMetric) :
                    painted.colors[k] =
                        interpolateColor(colorSettings.choroLow, colorSettings.choroHigh,
                                         economicData[currentLevel][k][currentMetric][2] - min, max - min)

\* Three regions, one without a value and two with different values, coloured by the map tool.
C15_Witness ==
    /\ pc = "applyChoropleth"
    /\ RawPath
    /\ painted.kind = "match"
    /\ Cardinality(legendValues(currentLevel, currentMetric)) = 2
    /\ WithValue(currentMetric) # DOMAIN economicData[currentLevel]

\* C16: for a market metric, at every level, the map tool colours by the
\* metric's _RANK field between the fixed bounds 0 and 1: the ZIP layer
\* interpolates the _RANK feature state from choroLow at 0 to choroHigh at 1,
\* and a data level gives every region that has a rank the colour at that
\* rank between choroLow and choroHigh, whatever its raw value.
C16_MarketMetricsColourByRank ==
    (pc = "applyChoropleth" /\ currentMetric \in redfinMetrics /\ painted # NothingPainted) =>
        IF currentLevel = "zips"
        THEN /\ painted.input = currentMetric \o "_RANK"
             /\ painted.stops = <<<<0, colorSettings.choroLow>>, <<10, colorSettings.choroHigh>>>>
        ELSE /\ DOMAIN painted.colors = WithValue(currentMetric \o "_RANK")
             /\ \A k \in DOMAIN painted.colors :
                   painted.colors[k] =
                       interpolateColor(colorSettings.choroLow, colorSettings.choroHigh,
                                        economicData[currentLevel][k][currentMetric \o "_RANK"][2], 10)

\* A data level painted for a market metric, a region of rank 0.5 and a region without a rank.
C16_Witness ==
    /\ pc = "applyChoropleth"
    /\ RankPath
    /\ painted.kind = "match"
    /\ \E k \in DOMAIN painted.colors : economicData[currentLevel][k]["MEDIAN_SALE_PRICE_RANK"] = Num(5)
    /\ DOMAIN painted.colors # DOMAIN economicData[currentLevel]

---------------------------------------------------------------------------
(* Properties of the legend and of the fill of a session.                  *)

\* C17: whenever the legend is shown, its low and high labels are the least
\* and the greatest raw value of the current metric over the records of the
\* current level, as formatMetricValue writes them.
C17_LegendShowsRawBounds ==
    (legend.display /\ currentMetric # "none" /\ legendValues(currentLevel, currentMetric) # {}) =>
        /\ legend.low = formatMetricValue(currentMetric, MathMin(legendValues(currentLevel, currentMetric)))
        /\ legend.high = formatMetricValue(currentMetric, MathMax(legendValues(currentLevel, currentMetric)))

\* C18: whenever the current metric is 'none', the fill of the current level
\* is the plain one (selected or dimmed colour, no gradient of a metric) and
\* the legend is hidden.
C18_NoMetricNoGradient ==
    currentMetric = "none" =>
        /\ fillColor[currentLevel][1] \in {"dimmed", "flat"}
        /\ ~legend.display

---------------------------------------------------------------------------
(* Properties of the overlay loads and of the merge.                       *)

\* C19: an overlay whose fetch failed leaves its table empty and the merge
\* changes no record of its level, while the baseline (if its own fetch did
\* not fail) and every other overlay are loaded and merged: the ZIP table and
\* each level's table hold the rows of their document, and the level's records
\* are the baseline's merged with that table.
C19_FailedOverlayIsIsolated ==
    pc \in AfterMerge =>
        /\ "econ" \notin failed => preMerge = LoadedEconomicData(files.econ)
        /\ redfinData = (IF "zip" \in failed THEN EmptyObject ELSE ZipTable(EmptyObject, files.zip, Len(files.zip)))
        /\ \A lv \in DataLevels :
              IF OverlayOf(lv) \in failed
              THEN /\ TableOf(lv) = EmptyObject
                   /\ economicData[lv] = preMerge[lv]
              ELSE /\ TableOf(lv) = Snapshot(EmptyObject, RowsOf(lv), OverlayKeyField(lv))
                   /\ economicData[lv] = MergeLevel(preMerge[lv], TableOf(lv), KeyFieldsOf(lv))

\* The state overlay failed alone: the states are as the baseline gave them,
\* the county has its overlay row and the ZIP table is filled.
C19_Witness ==
    /\ pc \in AfterMerge
    /\ failed = {"state"}
    /\ economicData.states = preMerge.states
    /\ DOMAIN economicData.states # {}
    /\ economicData.counties # preMerge.counties
    /\ ~IsEmpty(redfinData)

\* C20: the merge changes only the fields its matching row names: a matched
\* record has the fields it had and those of the row, each field the row does
\* not name with the value it had; a record without a matching row, and the
\* set of records of the level, are as they were.
C20_MergeFrame ==
    pc = "merged" =>
        \A lv \in DataLevels :
            /\ DOMAIN economicData[lv] = DOMAIN preMerge[lv]
            /\ \A k \in DOMAIN preMerge[lv] :
                  LET code == FirstTruthy(preMerge[lv][k], KeyFieldsOf(lv), 1)
                  IN  IF Truthy(code) /\ JsString(code) \in DOMAIN TableOf(lv)
                      THEN /\ DOMAIN economicData[lv][k] = DOMAIN preMerge[lv][k] \cup DOMAIN TableOf(lv)[JsString(code)]
                           /\ \A f \in DOMAIN preMerge[lv][k] \ DOMAIN TableOf(lv)[JsString(code)] :
                                 economicData[lv][k][f] = preMerge[lv][k][f]
                      ELSE economicData[lv][k] = preMerge[lv][k]

\* A level with a record the merge gave a row to, its population kept, and a
\* record the merge left alone although the table has rows.
C20_Witness ==
    /\ pc = "merged"
    /\ \E lv \in DataLevels : \E k1, k2 \in DOMAIN preMerge[lv] :
          /\ economicData[lv][k1] # preMerge[lv][k1]
          /\ Get(economicData[lv][k1], "totalPopulation") = Num(39)
          /\ "PERIOD_END" \in DOMAIN economicData[lv][k1]
          /\ economicData[lv][k2] = preMerge[lv][k2]
          /\ ~IsEmpty(TableOf(lv))

---------------------------------------------------------------------------
(* The ends of the gradient.                                               *)

\* the red, green and blue channels of a colour, as one number
Channels(color) == parseInt16(Tail(color))

\* C22: when the least value of the metric is below the greatest, the region
\* that holds the least value is painted in the low stop of the gradient and
\* the region that holds the greatest in the high stop, channel for channel.
C22_EndsOfGradient ==
    (Applied /\ RawPath /\ painted.kind = "match") =>
        LET values == legendValues(currentLevel, currentMetric)
        IN  (values # {} /\ MathMin(values)[2] < MathMax(values)[2]) =>
                \A k \in WithValue(currentMetric) :
                    /\ economicData[currentLevel][k][currentMetric] = MathMin(values) =>
                          Channels(painted.colors[k]) = Channels(colorSettings.choroLow)
                    /\ economicData[currentLevel][k][currentMetric] = MathMax(values) =>
                          Channels(painted.colors[k]) = Channels(colorSettings.choroHigh)

\* Regions of population 10 and 40 painted by the map tool with the gradient written in capitals.
C22_Witness ==
    /\ pc = "applyChoropleth"
    /\ RawPath
    /\ painted.kind = "match"
    /\ colorSettings.choroLow = <<"#", "F", "F", "A", "A", "0", "0">>
    /\ legendValues(currentLevel, currentMetric) = {Num(10), Num(40)}

---------------------------------------------------------------------------
(* The merge, run again.                                                   *)

\* C23: mergeRedfinIntoEconomicData run a second time with the same tables
\* leaves every record with the fields and the values the first run gave it.
C23_MergeIdempotent ==
    pc = "merged" =>
        Merged(economicData, redfinStateData, redfinCountyData, redfinCbsaData) = economicData

\* A merge that overwrote a baseline sale price of a record and left another record alone.
C23_Witness ==
    /\ pc = "merged"
    /\ \E lv \in DataLevels : \E k1, k2 \in DOMAIN preMerge[lv] :
          /\ Get(preMerge[lv][k1], "MEDIAN_SALE_PRICE") = Num(100)
          /\ Get(economicData[lv][k1], "MEDIAN_SALE_PRICE") = Num(800)
          /\ k2 # k1
          /\ Matches(economicData[lv][k1], TableOf(lv), KeyFieldsOf(lv))

---------------------------------------------------------------------------
(* Properties of the session: lines, promises and records.                 *)

\* C24: once startup is over, at most one level has its boundary lines
\* visible, and it is the level the user chose last ('states' if the user
\* chose none).
C24_OneVisibleLevel ==
    pc = "ready" =>
        /\ Cardinality(lineOn) <= 1
        /\ lineOn \subseteq {userLevel}

\* What the map does besides: the boundary sources of the states and of the
\* counties finish loading, and 'sourcedata' is fired for every source while
\* listeners wait.
MapFairness ==
    /\ WF_vars(SourceLoadChange("states"))
    /\ WF_vars(SourceLoadChange("counties"))
    /\ \A sourceId \in {"states", "counties", "zips"} : WF_vars(SourceData(sourceId))

SpecLoaded == InitLive /\ [][Next]_vars /\ Fairness /\ MapFairness

\* C25: the promise of every applyRedfinDataToZips call the 'load' handler
\* awaits is resolved in the end, whatever 'sourcedata' events come before the
\* one of its source, so that startup reaches initializeDefaultGeography.
C25_StartupReachesDefaultGeography ==
    (pc \in {"await1", "await2"}) ~> (pc = "ready")

---------------------------------------------------------------------------
(* The interface of a loaded session: the region list and its highlights,  *)
(* the pointer and the tooltip, the colour inputs and the theme switch.    *)

\* how many times the user changes the theme in a run
MaxThemeChanges == 1

\* map.queryRenderedFeatures(e.point, {layers: [`${level}-fill`]}) at the
\* points the pointer can be at: the ids of the features in view
\* (EconomicMap.js:1811, 1833); the ZIP features are those of the tiles
RenderedFeatures(level) ==
    IF ~layersAdded THEN {}
    ELSE IF level = "zips" /\ ~zipFeatures THEN {}
    ELSE BoundaryFeatures[level]

\* a point of the map with no feature under it
NoFeature == ""

\* a handler that goes on tracking the pointer while the tooltip is locked
onMouseMoveWhileLocked(tt, id) ==
    IF ~layersAdded THEN tt
    ELSE IF id # NoFeature
    THEN [tt EXCEPT !.content = updateTooltipContent(id), !.show = TRUE]
    ELSE [tt EXCEPT !.show = FALSE]

\* EconomicMap.js:1805-1821: the tooltip after onMouseMove ran for a pointer
\* over feature id
onMouseMove(tt, id) ==
    IF isTooltipLocked THEN tt
    ELSE IF ~layersAdded THEN tt
    ELSE IF id # NoFeature
    THEN [tt EXCEPT !.content = updateTooltipContent(id), !.show = TRUE]
    ELSE [tt EXCEPT !.show = FALSE]

\* EconomicMap.js:1823-1827
onMouseLeave(tt) ==
    IF isTooltipLocked THEN tt ELSE [tt EXCEPT !.show = FALSE]

\* EconomicMap.js:1663-1674: window.closeTooltip
closeTooltip ==
    /\ isTooltipLocked' = FALSE
    /\ tooltip' = [tooltip EXCEPT !.locked = FALSE, !.show = FALSE]

\* EconomicMap.js:1829-1844: onMapClick for a click on feature id
onMapClick(id) ==
    IF id # NoFeature
    THEN /\ isTooltipLocked' = TRUE
         /\ tooltip' = [locked |-> TRUE, content |-> updateTooltipContent(id), show |-> TRUE]
    ELSE closeTooltip

\* The pointer moves over the map. The map calls every 'mousemove' listener
\* it holds; they run the same code on the same globals, and a second run
\* changes nothing the first has not.
MouseMove(id) ==
    /\ Idle
    /\ mapListeners["mousemove"] # {}
    /\ id \in RenderedFeatures(currentLevel) \cup {NoFeature}
    /\ tooltip' = onMouseMove(tooltip, id)
    /\ UNCHANGED <<dataAndPc, sessVars, colorVars, chartVars, allRegions, highlightedRegions, featureState, mapListeners, setupCalls, isTooltipLocked, themePc, themeChanges>>

\* The pointer leaves the map.
MouseLeave ==
    /\ Idle
    /\ mapListeners["mouseleave"] # {}
    /\ tooltip' = onMouseLeave(tooltip)
    /\ UNCHANGED <<dataAndPc, sessVars, colorVars, chartVars, allRegions, highlightedRegions, featureState, mapListeners, setupCalls, isTooltipLocked, themePc, themeChanges>>

\* a click handler that writes the years it looked up into the region's record
MapClickCachingYears(id) ==
    /\ Idle
    /\ mapListeners["click"] # {}
    /\ id \in RenderedFeatures(currentLevel) \cup {NoFeature}
    /\ onMapClick(id)
    /\ economicData' = IF currentLevel \in DataLevels /\ id \in DOMAIN economicData[currentLevel]
                       THEN [economicData EXCEPT ![currentLevel][id] = SetField(@, "years", EmptyObject)]
                       ELSE economicData
    /\ UNCHANGED <<files, failed, redfinData, redfinStateData, redfinCountyData, redfinCbsaData, settled, preMerge, pc>>
    /\ UNCHANGED <<sessVars, colorVars, chartVars, allRegions, highlightedRegions, featureState, mapListeners, setupCalls, themePc, themeChanges>>

\* The user clicks the map, on feature id or on no feature.
MapClick(id) ==
    /\ Idle
    /\ mapListeners["click"] # {}
    /\ id \in RenderedFeatures(currentLevel) \cup {NoFeature}
    /\ onMapClick(id)
    /\ UNCHANGED <<dataAndPc, sessVars, colorVars, chartVars, allRegions, highlightedRegions, featureState, mapListeners, setupCalls, themePc, themeChanges>>

\* EconomicMap.js:1691, 1663-1674: the user clicks the tooltip's close button,
\* which the tooltip has once a content was written into it.
CloseTooltip ==
    /\ Idle
    /\ tooltip.show /\ tooltip.content # NoContent
    /\ closeTooltip
    /\ UNCHANGED <<dataAndPc, sessVars, colorVars, chartVars, allRegions, highlightedRegions, featureState, mapListeners, setupCalls, themePc, themeChanges>>

\* EconomicMap.js:990-996: the user ticks or clears the checkbox of a region
\* of the list; a box is ticked when its region is in highlightedRegions.
handleRegionCheckbox(regionId, checked) ==
    /\ Idle
    /\ regionId \in allRegions
    /\ checked = (regionId \notin highlightedRegions)
    /\ LET highlighted == IF checked THEN highlightedRegions \cup {regionId}
                          ELSE highlightedRegions \ {regionId}
       IN  /\ highlightedRegions' = highlighted
           /\ featureState' = updateHighlights(featureState, currentLevel, allRegions, highlighted)
    /\ UNCHANGED <<dataAndPc, sessVars, colorVars, chartVars, allRegions, mapListeners, setupCalls, isTooltipLocked, tooltip, themePc, themeChanges>>

\* the colours the user types into the colour inputs
ColorInputs == [selected |-> <<"#", "f", "f", "0", "0", "0", "0">>,
                choroLow |-> <<"#", "f", "f", "f", "f", "f", "f">>]

\* EconomicMap.js:1622-1634: the fills updateMapColors repaints when no metric
\* is selected, those of the three data levels
updateMapColors(fill) ==
    IF layersAdded /\ currentMetric = "none"
    THEN [lv \in Levels |-> IF lv \in DataLevels THEN <<"flat", "none">> ELSE fill[lv]]
    ELSE fill

\* EconomicMap.js:1586-1591, 1595-1599: the user picks a colour for key.
updateColor(key) ==
    /\ Idle /\ OverlayHidden
    /\ colorSettings[key] # ColorInputs[key]
    /\ colorSettings' = [colorSettings EXCEPT ![key] = ColorInputs[key]]
    /\ IF currentMetric # "none" /\ key \in {"choroLow", "choroHigh"}
       THEN /\ fillColor' = applyChoropleth(updateMapColors(fillColor), currentLevel, currentMetric)
            /\ legend' = legendAfterChoropleth(legend, currentLevel, currentMetric)
            /\ highlightedRegions' = highlightedAfterChoropleth(highlightedRegions, currentLevel, currentMetric)
       ELSE /\ fillColor' = updateMapColors(fillColor)
            /\ UNCHANGED <<legend, highlightedRegions>>
    /\ UNCHANGED <<dataAndPc, chartVars, painted, notification, allRegions, featureState, mapListeners, setupCalls, isTooltipLocked, tooltip, themePc, themeChanges>>
    /\ UNCHANGED <<currentLevel, currentMetric, originalLevel, userLevel, nSel, lastGeo, layersAdded, lineOn, zipFeatures, srcLoaded, zipFeatureStateHandlerSetup, zipHandlers, polls, timeouts, waiters, dispatch, micro, staleCalls>>

\* EconomicMap.js:1852-1858: the user switches the theme; setTheme asks the
\* map for the other style and waits for its 'style.load'.
setTheme ==
    /\ Idle /\ OverlayHidden
    /\ themePc = "idle"
    /\ themeChanges < MaxThemeChanges
    /\ themePc' = "style"
    /\ themeChanges' = themeChanges + 1
    /\ UNCHANGED <<dataAndPc, sessVars, colorVars, chartVars, allRegions, highlightedRegions, featureState, mapListeners, setupCalls, isTooltipLocked, tooltip>>

\* EconomicMap.js:1858-1878: the new style is in place, with none of the
\* sources, layers and feature states of the old one; the 'style.load'
\* listener adds the boundaries again, clears zipFeatureStateHandlerSetup
\* and calls applyRedfinDataToZips, whose source is not loaded yet, and
\* starts the 100 ms timer. The listeners put on the map stay on it.
StyleLoad ==
    /\ Idle
    /\ themePc = "style"
    /\ themePc' = "timer"
    /\ lineOn' = {}
    /\ fillColor' = InitialFill
    /\ featureState' = NoFeatureState
    /\ srcLoaded' = [s \in DOMAIN srcLoaded |-> FALSE]
    /\ zipFeatures' = FALSE
    /\ IF ~IsEmpty(redfinData)
       THEN /\ zipFeatureStateHandlerSetup' = FALSE
            /\ IF ActiveSource(currentLevel) = "none"
               THEN /\ micro' = Append(micro, <<"theme">>)
                    /\ UNCHANGED waiters
               ELSE /\ waiters' = Append(waiters, [sourceId |-> ActiveSource(currentLevel), then |-> <<"theme">>])
                    /\ UNCHANGED micro
       ELSE UNCHANGED <<zipFeatureStateHandlerSetup, micro, waiters>>
    /\ UNCHANGED <<dataAndPc, colorVars, chartVars, allRegions, highlightedRegions, mapListeners, setupCalls, isTooltipLocked, tooltip, themeChanges>>
    /\ UNCHANGED <<currentLevel, currentMetric, originalLevel, userLevel, nSel, lastGeo, layersAdded, zipHandlers, polls, timeouts, dispatch, staleCalls, legend>>

\* EconomicMap.js:1866-1868: applyRedfinDataToZips has resolved for a theme change.
ThemeThen ==
    /\ Ready("theme")
    /\ micro' = Tail(micro)
    /\ UNCHANGED <<dataAndPc, colorVars, uiVars, chartVars, currentLevel, currentMetric, originalLevel, userLevel, nSel, lastGeo, layersAdded, fillColor, lineOn, zipFeatures, srcLoaded, zipFeatureStateHandlerSetup, zipHandlers, polls, timeouts, waiters, dispatch, staleCalls, legend>>

\* EconomicMap.js:1871-1874: the 100 ms timer dispatches 'change' on the
\* geo-level selector, whose listener runs with the level the selector shows.
ThemeTimer ==
    /\ Idle
    /\ themePc = "timer"
    /\ themePc' = "idle"
    /\ geoLevelChange(userLevel, MaxSelections + themeChanges)
    /\ UNCHANGED <<featureState, isTooltipLocked, tooltip, themeChanges>>
    /\ UNCHANGED <<dataAndPc, colorVars, chartVars, currentMetric, originalLevel, userLevel, nSel, layersAdded, zipFeatures, srcLoaded, dispatch, staleCalls>>

\* A session whose startup has finished with every load successful, its
\* sources loaded and ZIP tiles in view: the states are shown, the ZIP
\* 'sourcedata' handler is on the map, the tooltip handlers are set.
InitUI ==
    /\ files = SessionFiles
    /\ failed = {}
    /\ pc = "ready"
    /\ redfinData = ZipTable(EmptyObject, files.zip, Len(files.zip))
    /\ redfinStateData = Snapshot(EmptyObject, files.state, "STATE_CODE")
    /\ redfinCountyData = Snapshot(EmptyObject, files.county, "COUNTY_FIPS")
    /\ redfinCbsaData = Snapshot(EmptyObject, files.cbsa, "TABLE_ID")
    /\ preMerge = LoadedEconomicData(files.econ)
    /\ economicData = Merged(preMerge, redfinStateData, redfinCountyData, redfinCbsaData)
    /\ settled = Sources
    /\ currentLevel = "states"
    /\ currentMetric = "none"
    /\ originalLevel = "states"
    /\ userLevel = "states"
    /\ nSel = 0
    /\ lastGeo = 0
    /\ layersAdded = TRUE
    /\ fillColor = InitialFill
    /\ lineOn = {"states"}
    /\ zipFeatures = TRUE
    /\ srcLoaded = [s \in {"states", "counties", "zips"} |-> TRUE]
    /\ zipFeatureStateHandlerSetup = TRUE
    /\ zipHandlers = 1
    /\ polls = NoPolls
    /\ timeouts = {}
    /\ waiters = <<>>
    /\ dispatch = NoEvent
    /\ micro = <<>>
    /\ staleCalls = {}
    /\ legend = InitialLegend
    /\ colorSettings = DefaultColorSettings
    /\ painted = NothingPainted
    /\ notification = ""
    /\ allRegions = populateRegionList("states")
    /\ highlightedRegions = {}
    /\ featureState = NoFeatureState
    /\ setupCalls = 1
    /\ mapListeners = setupHoverTooltip(NoListeners, 1)
    /\ isTooltipLocked = FALSE
    /\ tooltip = [show |-> FALSE, locked |-> FALSE, content |-> NoContent]
    /\ themePc = "idle"
    /\ themeChanges = 0
    /\ ChartInit

\* The handlers of the page, run by a user whose view stays where it is: the
\* two selectors and the continuations they leave, the pointer, the region
\* list, the colour inputs and the theme switch.
NextUI ==
    \/ \E level \in Levels : GeoSelect(level)
    \/ \E metric \in Metrics : MetricSelect(metric)
    \/ MetricThen
    \/ GeoThen("geo")
    \/ \E id \in {"06", "48", "06037", "31080", "90210", NoFeature} : MouseMove(id)
    \/ MouseLeave
    \/ \E id \in {"06", "48", "06037", "31080", "90210", NoFeature} : MapClick(id)
    \/ CloseTooltip
    \/ \E regionId \in {"06", "48", "06037", "31080", "90210"}, checked \in BOOLEAN : handleRegionCheckbox(regionId, checked)
    \/ \E key \in DOMAIN ColorInputs : updateColor(key)
    \/ setTheme
    \/ StyleLoad
    \/ ThemeThen
    \/ ThemeTimer

SpecUI == InitUI /\ [][NextUI]_vars

\* The pointer and the tooltip alone, with the selectors and the theme
\* switch that set the tooltip handlers again.
NextTooltip ==
    \/ \E level \in Levels : GeoSelect(level)
    \/ \E metric \in Metrics : MetricSelect(metric)
    \/ MetricThen
    \/ GeoThen("geo")
    \/ \E id \in {"06", "48", "06037", "31080", "90210", NoFeature} : MouseMove(id)
    \/ MouseLeave
    \/ \E id \in {"06", "48", "06037", "31080", "90210", NoFeature} : MapClick(id)
    \/ CloseTooltip
    \/ setTheme
    \/ StyleLoad
    \/ ThemeThen
    \/ ThemeTimer

SpecTooltip == InitUI /\ [][NextTooltip]_vars

\* The theme switch with the map's own events: the selectors, the ZIP tile
\* poll, the sources loading and their 'sourcedata' events.
NextTheme ==
    \/ \E level \in Levels : GeoSelect(level)
    \/ \E metric \in Metrics : MetricSelect(metric)
    \/ MetricThen
    \/ \E kind \in {"geo", "poll"} : GeoThen(kind)
    \/ \E id \in 1..(MaxSelections + MaxThemeChanges) : PollTick(id)
    \/ \E id \in 1..(MaxSelections + MaxThemeChanges) : PollTimeout(id)
    \/ \E sourceId \in Levels : SourceData(sourceId)
    \/ OnceSourceData
    \/ TilesChange
    \/ \E sourceId \in DOMAIN srcLoaded : SourceLoadChange(sourceId)
    \/ setTheme
    \/ StyleLoad
    \/ ThemeThen
    \/ ThemeTimer

SpecTheme == InitUI /\ [][NextTheme]_vars

---------------------------------------------------------------------------
(* Properties of the interface.                                            *)

\* C21: once mergeRedfinIntoEconomicData has completed, no later operation
\* (a metric or geo-level selection, a colour change, a theme change, a
\* tooltip shown or locked, a highlight toggled) changes any field of any
\* region record of economicData: every step leaves economicData as it was.
C21_DataIsReadOnlyAfterMerge ==
    [][(pc \in AfterMerge) => (economicData' = economicData)]_vars

\* the operations of C21 have all run on the merged data: a level and a
\* metric are selected, a colour and the theme were changed, a region is
\* highlighted and the tooltip is locked on a feature with a record
C21_Witness ==
    /\ pc \in AfterMerge
    /\ economicData = Merged(LoadedEconomicData(files.econ), redfinStateData, redfinCountyData, redfinCbsaData)
    /\ userLevel = "counties" /\ currentMetric # "none"
    /\ colorSettings # DefaultColorSettings
    /\ themeChanges > 0 /\ themePc = "idle"
    /\ highlightedRegions # {}
    /\ isTooltipLocked /\ tooltip.content.id \in DOMAIN economicData["counties"]

\* C26: when a handler (a region checkbox change, a metric selection, a
\* geo-level selection) has run, highlightedRegions holds exactly the regions
\* of the current level whose feature state 'highlighted' is true, and a
\* region is 'dimmed' only when highlightedRegions is not empty and does not
\* hold it.
C26_HighlightsMatchFeatureState ==
    (Idle /\ themePc = "idle") =>
        LET regions == DOMAIN featureState[currentLevel]
        IN  /\ highlightedRegions = { id \in regions : FeatureFlag(featureState, currentLevel, id, "highlighted") }
            /\ \A id \in regions :
                  FeatureFlag(featureState, currentLevel, id, "dimmed") =>
                      (highlightedRegions # {} /\ id \notin highlightedRegions)

\* C27: after any number of setupHoverTooltip calls the map holds exactly one
\* handler for each of 'mousemove', 'mouseleave' and 'click'.
C27_OneHandlerPerPointerEvent ==
    setupCalls > 0 => \A type \in PointerEvents : Cardinality(mapListeners[type]) = 1

\* C28: at every moment the map holds at most one of the ZIP 'sourcedata'
\* handlers that applyRedfinDataToZips registers, whatever the ZIP-level
\* applications and theme changes before.
C28_OneZipSourceDataHandler == zipHandlers <= 1

\* C29: while the tooltip is locked, a 'mousemove' or a 'mouseleave' changes
\* neither its content nor whether it is shown; the lock is released only by
\* closeTooltip, called from the close button or by a click on a point with
\* no feature of the current level under it; and a click on a feature always
\* locks the tooltip on that feature, locked before or not.
C29_LockedTooltipIgnoresPointer ==
    [][/\ (isTooltipLocked /\ (MouseLeave \/ \E id \in BoundaryFeatures[currentLevel] \cup {NoFeature} : MouseMove(id)))
            => (tooltip'.content = tooltip.content /\ tooltip'.show = tooltip.show /\ isTooltipLocked')
       /\ (isTooltipLocked /\ ~isTooltipLocked') => (CloseTooltip \/ MapClick(NoFeature))
       /\ \A id \in BoundaryFeatures[currentLevel] :
             MapClick(id) => (isTooltipLocked' /\ tooltip'.locked /\ tooltip'.show
                              /\ tooltip'.content = updateTooltipContent(id))
      ]_vars

\* the tooltip is locked on a county while several setupHoverTooltip calls
\* have left their handlers on the map and the level has changed since
C29_Witness ==
    /\ isTooltipLocked /\ tooltip.locked /\ tooltip.show
    /\ tooltip.content.id = "06037"
    /\ currentLevel # "counties"
    /\ Cardinality(mapListeners["mousemove"]) >= 3

---------------------------------------------------------------------------
(* The chart builder (projects/chart_builder/frontend/app.js): the Load     *)
(* button, the request it sends and the chart drawn from the answer.       *)

\* the rows the API answers with
ChartRows == <<[state |-> Str("CA"), avg_price |-> Num(800)], [state |-> Str("TX"), avg_price |-> Num(300)]>>

\* The bodies of a 2xx answer of /data: no rows, one row, two rows, or a
\* body with no data property.
Responses ==
    { [data |-> Arr(SubSeq(ChartRows, 1, n)), count |-> Num(n)] : n \in 0..2 }
        \cup { [data |-> Undefined, count |-> Undefined] }

\* app.js:145-266: renderChart with the controls as they are; it draws
\* nothing and tells why when there is no data or a select is empty, and
\* otherwise replaces the chart with one of the data under the controls.
\* Reading the length of undefined throws.
renderChart(data, ctl, chart, status) ==
    IF data[1] # "array" THEN [threw |-> TRUE, chart |-> chart, status |-> status]
    ELSE IF Len(data[2]) = 0
    THEN [threw |-> FALSE, chart |-> chart, status |-> "No data to visualize"]
    ELSE IF ctl.metric = "" \/ ctl.groupBy = ""
    THEN [threw |-> FALSE, chart |-> chart, status |-> "Please select both metric and group-by columns"]
    ELSE [threw |-> FALSE, status |-> status,
          chart |-> <<"chart", [type |-> ctl.type, metric |-> ctl.metric, groupBy |-> ctl.groupBy,
                                showGrid |-> ctl.showGrid, rows |-> data[2]]>>]

\* app.js:112-115, 126: the user clicks the Load button, which a browser lets
\* them do while it is not disabled; loadData runs up to its await of apiCall.
ClickLoad ==
    /\ ~loadDataBtn.disabled
    /\ statusMessage' = "Loading data..."
    /\ loadDataBtn' = [disabled |-> TRUE]
    /\ request' = request + 1
    /\ UNCHANGED <<currentData, currentChart, controls>>
    /\ UNCHANGED <<dataAndPc, sessVars, colorVars, uiVars>>

\* a catch block that also forgets the rows loaded before
ApiFailsDroppingData ==
    /\ request > 0
    /\ request' = request - 1
    /\ statusMessage' = "Failed to load data"
    /\ currentData' = Arr(<<>>)
    /\ loadDataBtn' = [disabled |-> FALSE]
    /\ UNCHANGED <<currentChart, controls>>
    /\ UNCHANGED <<dataAndPc, sessVars, colorVars, uiVars>>

\* app.js:58-69, 136-141: the fetch rejects, answers with a status that is
\* not ok, or its body is no JSON: apiCall throws, loadData's catch tells
\* the failure and its finally enables the button.
ApiFails ==
    /\ request > 0
    /\ request' = request - 1
    /\ statusMessage' = "Failed to load data"
    /\ loadDataBtn' = [disabled |-> FALSE]
    /\ UNCHANGED <<currentData, currentChart, controls>>
    /\ UNCHANGED <<dataAndPc, sessVars, colorVars, uiVars>>

\* app.js:127-141: apiCall returns a body: loadData keeps its data, tells the
\* count and draws the chart and the table; what renderChart throws is
\* caught as a failed load; the finally enables the button.
ApiSucceeds(response) ==
    /\ request > 0
    /\ request' = request - 1
    /\ currentData' = response.data
    /\ LET loaded == "Loaded " \o (IF response.count = Undefined THEN "undefined" ELSE NumberToString(response.count[2])) \o " rows"
           drawn == renderChart(response.data, controls, currentChart, loaded)
       IN  /\ currentChart' = drawn.chart
           /\ statusMessage' = IF drawn.threw THEN "Failed to load data" ELSE drawn.status
    /\ loadDataBtn' = [disabled |-> FALSE]
    /\ UNCHANGED controls
    /\ UNCHANGED <<dataAndPc, sessVars, colorVars, uiVars>>

\* app.js:36-54: the user clicks a chart-type button or a checkbox, or picks
\* an option of a select, which has no listener. A button or a checkbox
\* draws the chart again when there are rows; its handler ends where
\* reading the length of undefined throws.
ControlChange(key, value) ==
    /\ controls[key] # value
    /\ controls' = [controls EXCEPT ![key] = value]
    /\ IF key \in {"type", "showGrid"} /\ currentData[1] = "array" /\ Len(currentData[2]) > 0
       THEN LET drawn == renderChart(currentData, controls', currentChart, statusMessage)
            IN  /\ currentChart' = drawn.chart
                /\ statusMessage' = drawn.status
       ELSE UNCHANGED <<currentChart, statusMessage>>
    /\ UNCHANGED <<currentData, loadDataBtn, request>>
    /\ UNCHANGED <<dataAndPc, sessVars, colorVars, uiVars>>

\* the values the user gives the controls
ControlValues ==
    [type |-> {"bar", "pie"}, metric |-> {"", "price"}, groupBy |-> {"", "state"}, showGrid |-> BOOLEAN]

\* the chart builder when init has run, beside a map that has not started
InitChart == InitLive

NextChart ==
    \/ ClickLoad
    \/ ApiFails
    \/ \E response \in Responses : ApiSucceeds(response)
    \/ \E key \in DOMAIN ControlValues : \E value \in ControlValues[key] : ControlChange(key, value)

SpecChart == InitChart /\ [][NextChart]_vars

\* C30: the Load button is disabled for the whole time a loadData request is
\* in flight and enabled again when loadData has finished, with the API call
\* successful or failed; and a failed API call leaves currentData and the
\* chart on display as they were.
C30_LoadButtonAndFailedLoad ==
    /\ [](loadDataBtn.disabled <=> request > 0)
    /\ [][ApiFails => (currentData' = currentData /\ currentChart' = currentChart)]_vars

\* a load has failed with rows loaded and a chart drawn before: they are
\* still there and the button is enabled again
C30_Witness ==
    /\ statusMessage = "Failed to load data"
    /\ request = 0 /\ ~loadDataBtn.disabled
    /\ currentData = Arr(ChartRows)
    /\ currentChart # Null

====
